---- MODULE Spec2Model ----
(***************************************************************************)
(* HexFleet simulation core (src/core/GameState.ts, src/utils/hex.ts).     *)
(*                                                                         *)
(* The module-level singleton `state` and the module-level real-time       *)
(* bookkeeping of GameState.ts are the variables; every exported action is *)
(* one action of the model.  endTurn() is split at the four numbered       *)
(* sub-steps of its body (variable pc) so that their order is observable;  *)
(* no other action is enabled while an endTurn() call is in progress.      *)
(*                                                                         *)
(* Number representation:                                                  *)
(*   - yieldRemaining (a percentage, a float in the source) is kept in     *)
(*     units of 1/YieldScale percent, so that every depletion step of the  *)
(*     seeded galaxy is an integer;                                        *)
(*   - richness is kept in hundredths (0.75 -> 75);                        *)
(*   - times (gameTime, deltaTime, durations) are kept in units of         *)
(*     1/TimeScale second.                                                 *)
(*   - intelLog holds the entries pushed by the call in progress or by the *)
(*     most recent call; olderLog holds the entries of earlier calls in    *)
(*     the specifications that keep them (the others forget them when the  *)
(*     caller continues).  state.intelLog is olderLog \o intelLog.  An     *)
(*     entry is [kind, text] with text reduced to its fixed prefix.        *)
(***************************************************************************)
EXTENDS Integers, Sequences, FiniteSets, TLC

VARIABLES
    phase,                  \* state.phase
    turn,                   \* state.turn
    galaxy,                 \* state.galaxy: mutable fields of every system
    fleets,                 \* state.fleets: fleet id -> fleet
    resources,              \* state.resources.tieredMetals
    selectedSystemId,       \* state.selectedSystemId
    selectedFleetId,        \* state.selectedFleetId ("null" when none)
    intelLog,               \* entries pushed since the current call began
    currentGameSpeedIndex,  \* module-level index into GAME_SPEEDS
    gameTime,               \* module-level game clock
    activeMovements,        \* module-level queue of FleetMovement
    lastAIActionTime,       \* module-level AI timer
    nextUid,                \* how many uid() values were drawn for fleet ids
    pc,                     \* "idle" before a call, a position inside
                            \* endTurn(), "returned" once a call is back
    lastCall,               \* [op, ret] of the call in progress / last call
    movesMade,              \* history: successful moveFleet calls per fleet
                            \* since the fleet got its movement budget
    storage,                \* localStorage[STORAGE_KEY]
    olderLog,               \* entries of state.intelLog older than the
                            \* current call, as far as they are kept
    beforeInvasion,         \* history: planet id -> controller, defense.control,
                            \* garrison and fortification just before the
                            \* startInvasion whose record the planet carries,
                            \* and the strength it was started with
    walk,                   \* a caller of utils/hex.ts: the coordinate a walk of
                            \* hexNeighbor steps began at, the coordinate it has
                            \* reached and the number of its steps (no walk
                            \* outside such a caller)
    rngs                    \* a caller of utils/rng.ts: two SeededRNG objects
                            \* constructed with one seed, the child derived from
                            \* each and the values the children returned (no
                            \* objects outside such a caller)

vars == <<phase, turn, galaxy, fleets, resources, selectedSystemId,
          selectedFleetId, intelLog, currentGameSpeedIndex, gameTime,
          activeMovements, lastAIActionTime, nextUid, pc, lastCall, movesMade,
          storage, olderLog, beforeInvasion, walk, rngs>>

----------------------------------------------------------------------------
(* Bounds of the model *)

\* endTurn() is not started once state.turn has reached MaxTurn
MaxTurn == 2

\* number of uid()-named fleets (stations, built fleets) over a run
MaxUids == 2

\* mineAsteroid is not followed once it would take a tier above MaxMetal
MaxMetal == 2

\* updateRealTimeGame is not called once gameTime would pass MaxGameTime
MaxGameTime == 18

\* reinforcePlanet is not called once it would take a garrison past MaxGarrison
MaxGarrison == 11

\* nor once it would take the troops on a planet past MaxTroops
MaxTroops == 12

\* the caller stops once the log has more than MaxLog entries of its calls
MaxLog == 6

----------------------------------------------------------------------------
(* Fixed-point scales *)

YieldScale == 120
TimeScale == 2

----------------------------------------------------------------------------
(* Balance knobs and static tables *)

MOVES_PER_TURN == 2

MINER_YIELD_PER_TURN == [T1 |-> 2, T2 |-> 5, T3 |-> 9]

Tiers == {"T1", "T2", "T3"}

Metals(a, b, c) == [T1 |-> a, T2 |-> b, T3 |-> c]

BlueprintKeys == {"CORVETTE", "FRIGATE", "DESTROYER"}

BLUEPRINTS ==
    [CORVETTE  |-> [shipType |-> "CORVETTE",  cost |-> Metals(10, 0, 0)],
     FRIGATE   |-> [shipType |-> "FRIGATE",   cost |-> Metals(15, 5, 0)],
     DESTROYER |-> [shipType |-> "DESTROYER", cost |-> Metals(0, 10, 2)]]

stationCost == Metals(10, 5, 2)

\* createShip: the buildCost a new ship of the given type carries
baseCosts ==
    [MINER      |-> Metals(8, 0, 0),
     CORVETTE   |-> Metals(10, 0, 0),
     FRIGATE    |-> Metals(15, 5, 0),
     DESTROYER  |-> Metals(0, 10, 2),
     CRUISER    |-> Metals(0, 15, 5),
     BATTLESHIP |-> Metals(0, 0, 12),
     CARRIER    |-> Metals(0, 20, 8)]

\* createShip: firepower, toughness and groundTroops of a new ship
combatStats ==
    [MINER      |-> [firepower |-> 1,  toughness |-> 2,  groundTroops |-> 0],
     CORVETTE   |-> [firepower |-> 3,  toughness |-> 3,  groundTroops |-> 5],
     FRIGATE    |-> [firepower |-> 5,  toughness |-> 4,  groundTroops |-> 10],
     DESTROYER  |-> [firepower |-> 8,  toughness |-> 6,  groundTroops |-> 15],
     CRUISER    |-> [firepower |-> 12, toughness |-> 8,  groundTroops |-> 20],
     BATTLESHIP |-> [firepower |-> 20, toughness |-> 12, groundTroops |-> 30],
     CARRIER    |-> [firepower |-> 5,  toughness |-> 10, groundTroops |-> 50]]

createShip(shipType) ==
    [type         |-> shipType,
     buildCost    |-> baseCosts[shipType],
     firepower    |-> combatStats[shipType].firepower,
     toughness    |-> combatStats[shipType].toughness,
     groundTroops |-> combatStats[shipType].groundTroops]

RECURSIVE FleetGroundTroopsOf(_, _)
\* calculateFleetStats: groundTroops is the sum over the ships
FleetGroundTroopsOf(ships, i) ==
    IF i > Len(ships) THEN 0
    ELSE ships[i].groundTroops + FleetGroundTroopsOf(ships, i + 1)

\* calculateFleetStats: role is MINER iff some ship is a miner
FleetRoleOf(ships) ==
    IF \E i \in 1..Len(ships) : ships[i].type = "MINER" THEN "MINER" ELSE "COMBAT"

\* calculateFleetStats: miningTier of a fleet with miners ("NONE" = undefined)
FleetMiningTierOf(ships) ==
    IF \E i \in 1..Len(ships) : ships[i].type = "MINER" THEN "T1" ELSE "NONE"

----------------------------------------------------------------------------
(* Hex geometry (src/utils/hex.ts) *)

Abs(x) == IF x < 0 THEN -x ELSE x

\* a maximum that does not clamp: it hands back its second argument
Max2_NoClamp(a, b) == b

Max2(a, b) == IF a >= b THEN a ELSE b

hexDistance_NoDs(a, b) == Max2(Abs(a.q - b.q), Abs(a.r - b.r))

hexDistance(a, b) ==
    LET dq == a.q - b.q
        dr == a.r - b.r
        ds == (a.q + a.r) - (b.q + b.r)
    IN  Max2(Max2(Abs(dq), Abs(dr)), Abs(ds))

HEX_DIRS == << [q |-> 1, r |-> 0],  [q |-> 1, r |-> -1], [q |-> 0, r |-> -1],
               [q |-> -1, r |-> 0], [q |-> -1, r |-> 1], [q |-> 0, r |-> 1] >>

\* the % of JavaScript on integers: the result has the sign of the dividend
JsRem(a, n) == IF a >= 0 THEN a % n ELSE -((-a) % n)

\* a neighbour taken in the direction |dirIndex|
hexNeighbor_AbsIndex(c, dirIndex) ==
    LET d == HEX_DIRS[JsRem(Abs(dirIndex), 6) + 1]
    IN  [q |-> c.q + d.q, r |-> c.r + d.r]

\* HEX_DIRS is indexed from 0 in the source and from 1 here
hexNeighbor(c, dirIndex) ==
    LET d == HEX_DIRS[JsRem(JsRem(dirIndex, 6) + 6, 6) + 1]
    IN  [q |-> c.q + d.q, r |-> c.r + d.r]

----------------------------------------------------------------------------
(* Seeded galaxy (seedGalaxy): static part *)

\* insertion order of state.galaxy, the order of Object.values(state.galaxy)
SystemOrder == <<"SOL", "ALPHA", "BETA", "GAMMA", "DELTA">>

Systems == {SystemOrder[i] : i \in 1..Len(SystemOrder)}

SystemCoord ==
    [SOL   |-> [q |-> 0,  r |-> 0],
     ALPHA |-> [q |-> 1,  r |-> 0],
     BETA  |-> [q |-> 0,  r |-> 1],
     GAMMA |-> [q |-> -1, r |-> 1],
     DELTA |-> [q |-> -1, r |-> 0]]

\* systems seeded with an asteroid field, with the field's constant fields
AsteroidSystems == {"SOL", "ALPHA", "BETA", "DELTA"}

Asteroids ==
    [SOL   |-> [metalTier |-> "T1", richness |-> 75,  totalYield |-> 1000],
     ALPHA |-> [metalTier |-> "T2", richness |-> 100, totalYield |-> 1500],
     BETA  |-> [metalTier |-> "T1", richness |-> 125, totalYield |-> 1200],
     DELTA |-> [metalTier |-> "T3", richness |-> 60,  totalYield |-> 800]]

FullYield == 100 * YieldScale

\* system.planets of a system that has none: the map with no planet id
NoPlanets == [p \in {} |-> {}]

\* no walk over the hex grid is under way
NoWalk == [active |-> FALSE]

\* no SeededRNG object has been constructed
NoRngs == [active |-> FALSE]

seedGalaxy ==
    [s \in Systems |->
        [discovered     |-> (s = "SOL"),
         intel          |-> IF s = "SOL" THEN "SCANNED" ELSE "UNKNOWN",
         yieldRemaining |-> IF s \in AsteroidSystems THEN FullYield ELSE 0,
         station        |-> "NONE",
         planets        |-> NoPlanets]]

----------------------------------------------------------------------------
(* Fleets *)

\* ids produced by uid(), in the order they are drawn
UidPool == [i \in 1..MaxUids |-> "U" \o ToString(i)]

\* insertion order of state.fleets, the order of Object.values(state.fleets)
FleetOrder == <<"MINER-1", "ENEMY-1">> \o UidPool

NewFleet(owner, ships, location, moves) ==
    [owner      |-> owner,
     role       |-> FleetRoleOf(ships),
     miningTier |-> FleetMiningTierOf(ships),
     ships      |-> ships,
     location   |-> location,
     maxMoves   |-> moves,
     movesLeft  |-> moves,
     groundTroops |-> FleetGroundTroopsOf(ships, 1)]

seedFleets ==
    ("MINER-1" :> NewFleet("PLAYER", <<createShip("MINER")>>, "SOL", MOVES_PER_TURN))
    @@ ("ENEMY-1" :> NewFleet("ENEMY", <<createShip("CORVETTE")>>, "DELTA", MOVES_PER_TURN))

----------------------------------------------------------------------------
(* Helpers of GameState.ts *)

rootVars == <<phase, turn, galaxy, fleets, resources, selectedSystemId,
              selectedFleetId>>

rtVars == <<currentGameSpeedIndex, gameTime, activeMovements, lastAIActionTime>>

\* what lies outside the calls of the action API: the external store, the
\* part of the log written by earlier calls and the history of the sieges
extVars == <<storage, olderLog, beforeInvasion, walk, rngs>>

Entry(kind, text) == [kind |-> kind, text |-> text]

\* a test that is content with one affordable tier
canAfford_AnyTier(res, cost) ==
    cost.T1 <= res.T1 \/ cost.T2 <= res.T2 \/ cost.T3 <= res.T3

canAfford(res, cost) ==
    cost.T1 <= res.T1 /\ cost.T2 <= res.T2 /\ cost.T3 <= res.T3

\* a payment that debits the first tier only
pay_FirstTierOnly(res, cost) ==
    [T1 |-> res.T1 - cost.T1, T2 |-> res.T2, T3 |-> res.T3]

pay(res, cost) ==
    [T1 |-> res.T1 - cost.T1, T2 |-> res.T2 - cost.T2, T3 |-> res.T3 - cost.T3]

addMetals(res, tier, amount) == [res EXCEPT ![tier] = @ + amount]

\* a ledger the model still follows (every tier within MaxMetal)
WithinCap(res) == \A t \in Tiers : res[t] <= MaxMetal

\* a reset that restores no budget
resetMovesFor_None(fs, owner) == fs

resetMovesFor(fs, owner) ==
    [id \in DOMAIN fs |->
        IF fs[id].owner # owner THEN fs[id]
        ELSE [fs[id] EXCEPT !.maxMoves = MOVES_PER_TURN,
                            !.movesLeft = MOVES_PER_TURN]]

\* a rejection that drops the fleet selection on its way out
Reject_Deselects(op, entries) ==
    /\ intelLog' = entries
    /\ lastCall' = [op |-> op, ret |-> "false"]
    /\ pc' = "returned"
    /\ selectedFleetId' = "null"
    /\ UNCHANGED <<extVars, phase, turn, galaxy, fleets, resources, selectedSystemId,
                   rtVars, nextUid, movesMade>>

\* the call returns false having pushed the given entries and nothing else
Reject(op, entries) ==
    /\ intelLog' = entries
    /\ lastCall' = [op |-> op, ret |-> "false"]
    /\ pc' = "returned"
    /\ UNCHANGED <<extVars, rootVars, rtVars, nextUid, movesMade>>

----------------------------------------------------------------------------
(* buildStation(atSystemId, free) *)

\* the effect of buildStation once its checks have passed, on a given ledger
StationBuilt(atSystemId, free, res) ==
    LET id == UidPool[nextUid + 1]
        stationShip == [createShip("CORVETTE") EXCEPT !.type = "STATION"]
    IN  /\ nextUid < MaxUids
        /\ resources' = res
        /\ fleets' = fleets @@ (id :> NewFleet("PLAYER", <<stationShip>>, atSystemId, 0))
        /\ movesMade' = movesMade @@ (id :> 0)
        /\ galaxy' = [galaxy EXCEPT ![atSystemId].station = id]
        /\ nextUid' = nextUid + 1
        /\ intelLog' = <<Entry("BUILD", IF free THEN "STATION established (free starter)"
                                              ELSE "STATION constructed")>>
        /\ lastCall' = [op |-> "buildStation", ret |-> "true"]
        /\ pc' = "returned"
        /\ UNCHANGED <<extVars, phase, turn, selectedSystemId, selectedFleetId, rtVars>>

buildStation(atSystemId, free) ==
    /\ pc = "idle"
    /\ IF atSystemId \notin Systems
       THEN Reject("buildStation", <<>>)
       ELSE IF phase # "PLAYER"
       THEN Reject("buildStation", <<Entry("ALERT", "STATION BLOCKED: Not in PLAYER phase")>>)
       ELSE IF ~free /\ ~canAfford(resources, stationCost)
       THEN Reject("buildStation", <<Entry("ALERT", "STATION FAILED: costs")>>)
       ELSE StationBuilt(atSystemId, free,
                         IF free THEN resources ELSE pay(resources, stationCost))

----------------------------------------------------------------------------
(* bootstrapGameState / newGame *)

\* the root state bootstrapGameState() leaves, the free SOL station included
BootFleets(stationId) ==
    seedFleets @@ (stationId :> NewFleet("PLAYER",
                       <<[createShip("CORVETTE") EXCEPT !.type = "STATION"]>>, "SOL", 0))

BootGalaxy(stationId) == [seedGalaxy EXCEPT !["SOL"].station = stationId]

BootLog == <<Entry("SYSTEM", "NEW GAME"),
             Entry("BUILD", "STATION established (free starter)")>>

\* the state bootstrapGameState() leaves, except that the galaxy, the
\* ledger, the stored text and the older part of the log are the given ones
BootState(g, ledger, stored, older) ==
    /\ phase = "PLAYER"
    /\ turn = 1
    /\ galaxy = g
    /\ fleets = BootFleets(UidPool[1])
    /\ resources = ledger
    /\ selectedSystemId = "SOL"
    /\ selectedFleetId = "MINER-1"
    /\ intelLog = BootLog
    /\ currentGameSpeedIndex = 1
    /\ gameTime = 0
    /\ activeMovements = <<>>
    /\ lastAIActionTime = 0
    /\ nextUid = 1
    /\ pc = "returned"
    /\ lastCall = [op |-> "bootstrapGameState", ret |-> "void"]
    /\ movesMade = [id \in DOMAIN BootFleets(UidPool[1]) |-> 0]
    /\ storage = stored
    /\ olderLog = older
    /\ beforeInvasion = NoPlanets
    /\ walk = NoWalk
    /\ rngs = NoRngs

\* the state bootstrapGameState() leaves, except that the ledger and the
\* level of SOL's field are the given ones
BootWith(ledger, solYield) ==
    BootState([BootGalaxy(UidPool[1]) EXCEPT !["SOL"].yieldRemaining = solYield],
              ledger, [kind |-> "none"], <<>>)

\* bootstrapGameState(): zero resources, every field at 100 %
Init == BootWith(Metals(0, 0, 0), FullYield)

newGame ==
    /\ pc = "idle"
    /\ nextUid < MaxUids
    /\ phase' = "PLAYER"
    /\ turn' = 1
    /\ galaxy' = BootGalaxy(UidPool[nextUid + 1])
    /\ fleets' = BootFleets(UidPool[nextUid + 1])
    /\ resources' = Metals(0, 0, 0)
    /\ selectedSystemId' = "SOL"
    /\ selectedFleetId' = "MINER-1"
    /\ intelLog' = BootLog
    /\ nextUid' = nextUid + 1
    /\ lastCall' = [op |-> "newGame", ret |-> "void"]
    /\ movesMade' = [id \in DOMAIN BootFleets(UidPool[nextUid + 1]) |-> 0]
    /\ pc' = "returned"
    /\ olderLog' = <<>>
    /\ beforeInvasion' = NoPlanets
    /\ UNCHANGED <<walk, rngs, storage, rtVars>>

----------------------------------------------------------------------------
(* selectSystem / selectFleet *)

\* a selection that marks the selected system as discovered
selectSystem_Discovers(systemId) ==
    /\ pc = "idle"
    /\ lastCall' = [op |-> "selectSystem", ret |-> "void"]
    /\ IF systemId \notin Systems
       THEN /\ intelLog' = <<>>
            /\ UNCHANGED <<selectedSystemId, galaxy>>
       ELSE /\ selectedSystemId' = systemId
            /\ galaxy' = [galaxy EXCEPT ![systemId].discovered = TRUE]
            /\ intelLog' = IF galaxy[systemId].intel = "UNKNOWN"
                           THEN <<Entry("SCAN", "UNKNOWN SIGNAL")>>
                           ELSE <<Entry("SYSTEM", "SYSTEM selected")>>
    /\ pc' = "returned"
    /\ UNCHANGED <<extVars, phase, turn, fleets, resources, selectedFleetId,
                   rtVars, nextUid, movesMade>>

selectSystem(systemId) ==
    /\ pc = "idle"
    /\ lastCall' = [op |-> "selectSystem", ret |-> "void"]
    /\ IF systemId \notin Systems
       THEN /\ intelLog' = <<>>
            /\ UNCHANGED selectedSystemId
       ELSE /\ selectedSystemId' = systemId
            /\ intelLog' = IF galaxy[systemId].intel = "UNKNOWN"
                           THEN <<Entry("SCAN", "UNKNOWN SIGNAL")>>
                           ELSE <<Entry("SYSTEM", "SYSTEM selected")>>
    /\ pc' = "returned"
    /\ UNCHANGED <<extVars, phase, turn, galaxy, fleets, resources, selectedFleetId,
                   rtVars, nextUid, movesMade>>

\* a selection that takes any id it is given
selectFleet_AnyFleet(fleetId) ==
    /\ pc = "idle"
    /\ lastCall' = [op |-> "selectFleet", ret |-> "void"]
    /\ selectedFleetId' = fleetId
    /\ intelLog' = <<Entry("SYSTEM", "FLEET selected")>>
    /\ pc' = "returned"
    /\ UNCHANGED <<extVars, phase, turn, galaxy, fleets, resources, selectedSystemId,
                   rtVars, nextUid, movesMade>>

selectFleet(fleetId) ==
    /\ pc = "idle"
    /\ lastCall' = [op |-> "selectFleet", ret |-> "void"]
    /\ IF fleetId \notin DOMAIN fleets
       THEN intelLog' = <<>> /\ UNCHANGED selectedFleetId
       ELSE IF fleets[fleetId].owner # "PLAYER"
       THEN intelLog' = <<>> /\ UNCHANGED selectedFleetId
       ELSE /\ selectedFleetId' = fleetId
            /\ intelLog' = <<Entry("SYSTEM", "FLEET selected")>>
    /\ pc' = "returned"
    /\ UNCHANGED <<extVars, phase, turn, galaxy, fleets, resources, selectedSystemId,
                   rtVars, nextUid, movesMade>>

----------------------------------------------------------------------------
(* moveFleet(fleetId, targetSystemId) *)

\* a relocation that forgets the move budget
MovedFleet_NoDecrement(f, targetSystemId) == [f EXCEPT !.location = targetSystemId]

\* f.location = targetSystemId; f.movesLeft -= 1
MovedFleet(f, targetSystemId) ==
    [f EXCEPT !.location = targetSystemId, !.movesLeft = @ - 1]

moveFleet(fleetId, targetSystemId) ==
    /\ pc = "idle"
    /\ IF fleetId \notin DOMAIN fleets \/ targetSystemId \notin Systems
       THEN Reject("moveFleet", <<>>)
       ELSE IF phase # "PLAYER"
       THEN Reject("moveFleet", <<Entry("ALERT", "MOVE BLOCKED: Not in PLAYER phase")>>)
       ELSE IF fleets[fleetId].owner # "PLAYER"
       THEN Reject("moveFleet", <<>>)
       ELSE IF fleets[fleetId].movesLeft <= 0
       THEN Reject("moveFleet", <<Entry("ALERT", "MOVE BLOCKED: no moves left")>>)
       ELSE IF fleets[fleetId].location \notin Systems
       THEN Reject("moveFleet", <<>>)
       ELSE IF hexDistance(SystemCoord[fleets[fleetId].location],
                           SystemCoord[targetSystemId]) # 1
       THEN Reject("moveFleet", <<Entry("ALERT", "MOVE BLOCKED: not adjacent")>>)
       ELSE /\ fleets' = [fleets EXCEPT ![fleetId] = MovedFleet(@, targetSystemId)]
            /\ movesMade' = [movesMade EXCEPT ![fleetId] = @ + 1]
            /\ galaxy' = IF galaxy[targetSystemId].intel = "UNKNOWN"
                         THEN [galaxy EXCEPT ![targetSystemId].intel = "SCANNED",
                                             ![targetSystemId].discovered = TRUE]
                         ELSE galaxy
            /\ intelLog' = (IF galaxy[targetSystemId].intel = "UNKNOWN"
                            THEN <<Entry("SCAN", "SCAN COMPLETE")>> ELSE <<>>)
                           \o <<Entry("MOVE", "MOVE")>>
            /\ lastCall' = [op |-> "moveFleet", ret |-> "true"]
            /\ pc' = "returned"
            /\ UNCHANGED <<extVars, phase, turn, resources, selectedSystemId,
                           selectedFleetId, rtVars, nextUid>>

----------------------------------------------------------------------------
(* buildFleet(blueprintKey, atSystemId) *)

buildFleet(blueprintKey, atSystemId) ==
    /\ pc = "idle"
    /\ IF blueprintKey \notin BlueprintKeys
       THEN Reject("buildFleet", <<>>)
       ELSE IF atSystemId \notin Systems
       THEN Reject("buildFleet", <<>>)
       ELSE IF phase # "PLAYER"
       THEN Reject("buildFleet", <<Entry("ALERT", "BUILD BLOCKED: Not in PLAYER phase")>>)
       ELSE IF ~canAfford(resources, BLUEPRINTS[blueprintKey].cost)
       THEN Reject("buildFleet", <<Entry("ALERT", "BUILD FAILED: costs")>>)
       ELSE LET id == UidPool[nextUid + 1]
                newShip == createShip(BLUEPRINTS[blueprintKey].shipType)
            IN  /\ nextUid < MaxUids
                /\ resources' = pay(resources, BLUEPRINTS[blueprintKey].cost)
                /\ fleets' = fleets @@ (id :> NewFleet("PLAYER", <<newShip>>,
                                                       atSystemId, MOVES_PER_TURN))
                /\ movesMade' = movesMade @@ (id :> 0)
                /\ nextUid' = nextUid + 1
                /\ intelLog' = <<Entry("BUILD", "BUILD constructed")>>
                /\ lastCall' = [op |-> "buildFleet", ret |-> "true"]
                /\ pc' = "returned"
                /\ UNCHANGED <<extVars, phase, turn, galaxy, selectedSystemId,
                               selectedFleetId, rtVars>>

----------------------------------------------------------------------------
(* dismantleFleet(fleetId) *)

RECURSIVE SumRefund_RoundUp(_, _)
\* a refund that rounds each half up instead of down
SumRefund_RoundUp(ships, i) ==
    IF i > Len(ships) THEN Metals(0, 0, 0)
    ELSE LET rest == SumRefund_RoundUp(ships, i + 1)
             c == ships[i].buildCost
         IN  Metals(rest.T1 + ((c.T1 + 1) \div 2), rest.T2 + ((c.T2 + 1) \div 2),
                    rest.T3 + ((c.T3 + 1) \div 2))

RECURSIVE SumRefund(_, _)
\* the loop over fleet.ships: per ship, floor(buildCost * 0.5) of every tier
SumRefund(ships, i) ==
    IF i > Len(ships) THEN Metals(0, 0, 0)
    ELSE LET rest == SumRefund(ships, i + 1)
             c == ships[i].buildCost
         IN  Metals(rest.T1 + (c.T1 \div 2), rest.T2 + (c.T2 \div 2),
                    rest.T3 + (c.T3 \div 2))

dismantleFleet(fleetId) ==
    /\ pc = "idle"
    /\ IF fleetId \notin DOMAIN fleets
       THEN Reject("dismantleFleet", <<Entry("ALERT", "DISMANTLE FAILED: Fleet not found")>>)
       ELSE IF fleets[fleetId].owner # "PLAYER"
       THEN Reject("dismantleFleet", <<Entry("ALERT", "DISMANTLE FAILED: enemy fleet")>>)
       ELSE IF phase # "PLAYER"
       THEN Reject("dismantleFleet", <<Entry("ALERT", "DISMANTLE BLOCKED: Not in PLAYER phase")>>)
       ELSE LET recovered == SumRefund(fleets[fleetId].ships, 1)
                newRes == Metals(resources.T1 + recovered.T1,
                                 resources.T2 + recovered.T2,
                                 resources.T3 + recovered.T3)
            IN  /\ resources' = newRes
                /\ fleets' = [id \in DOMAIN fleets \ {fleetId} |-> fleets[id]]
                /\ movesMade' = [id \in DOMAIN fleets \ {fleetId} |-> movesMade[id]]
                /\ selectedFleetId' = IF selectedFleetId = fleetId THEN "null"
                                      ELSE selectedFleetId
                /\ intelLog' = <<Entry("DISMANTLE", "DISMANTLE")>>
                /\ lastCall' = [op |-> "dismantleFleet", ret |-> "true"]
                /\ pc' = "returned"
                /\ UNCHANGED <<extVars, phase, turn, galaxy, selectedSystemId, rtVars,
                               nextUid>>

----------------------------------------------------------------------------
(* Mining *)

\* a gain computed from the field's metal tier instead of the miner's tier
MiningGain_ByFieldTier(f, systemId) ==
    Max2(0, (MINER_YIELD_PER_TURN[Asteroids[systemId].metalTier]
                * Asteroids[systemId].richness) \div 100)

\* gained = Math.max(0, Math.floor(base * richness)) for a miner at a field
MiningGain(f, systemId) ==
    LET minerTier == IF f.miningTier = "NONE" THEN "T1" ELSE f.miningTier
        base == MINER_YIELD_PER_TURN[minerTier]
    IN  Max2(0, (base * Asteroids[systemId].richness) \div 100)

\* (gained / totalYield) * 100, in units of 1/YieldScale percent
DepletionAmount(gained, systemId) ==
    (gained * 100 * YieldScale) \div Asteroids[systemId].totalYield

RECURSIVE MiningPass(_, _, _, _)
\* applyMiningForPlayerTurn: the loop over Object.values(state.fleets)
MiningPass(i, g, res, log) ==
    IF i > Len(FleetOrder) THEN [galaxy |-> g, resources |-> res, log |-> log]
    ELSE IF FleetOrder[i] \notin DOMAIN fleets THEN MiningPass(i + 1, g, res, log)
    ELSE LET f == fleets[FleetOrder[i]]
             sys == f.location
         IN  IF f.owner # "PLAYER" THEN MiningPass(i + 1, g, res, log)
             ELSE IF f.role # "MINER" THEN MiningPass(i + 1, g, res, log)
             ELSE IF sys \notin Systems THEN MiningPass(i + 1, g, res, log)
             ELSE IF sys \notin AsteroidSystems THEN MiningPass(i + 1, g, res, log)
             ELSE IF g[sys].yieldRemaining <= 0 THEN MiningPass(i + 1, g, res, log)
             ELSE IF MiningGain(f, sys) <= 0 THEN MiningPass(i + 1, g, res, log)
             ELSE MiningPass(i + 1,
                    [g EXCEPT ![sys].yieldRemaining =
                        Max2(0, @ - DepletionAmount(MiningGain(f, sys), sys))],
                    addMetals(res, Asteroids[sys].metalTier, MiningGain(f, sys)),
                    Append(log, Entry("MINE", "MINING")))

\* Object.values(state.fleets).find(player miner at systemId), "null" if none
RECURSIVE FindMiner(_, _)
FindMiner(i, systemId) ==
    IF i > Len(FleetOrder) THEN "null"
    ELSE IF /\ FleetOrder[i] \in DOMAIN fleets
            /\ fleets[FleetOrder[i]].owner = "PLAYER"
            /\ fleets[FleetOrder[i]].role = "MINER"
            /\ fleets[FleetOrder[i]].location = systemId
         THEN FleetOrder[i]
         ELSE FindMiner(i + 1, systemId)

mineAsteroid(systemId) ==
    /\ pc = "idle"
    /\ IF systemId \notin Systems
       THEN Reject("mineAsteroid", <<>>)
       ELSE IF phase # "PLAYER"
       THEN Reject("mineAsteroid", <<Entry("ALERT", "MINING BLOCKED: Not in PLAYER phase")>>)
       ELSE IF FindMiner(1, systemId) = "null"
       THEN Reject("mineAsteroid", <<Entry("ALERT", "MINING BLOCKED: No miner fleet")>>)
       ELSE IF systemId \notin AsteroidSystems
       THEN Reject("mineAsteroid", <<Entry("ALERT", "MINING BLOCKED: No asteroids")>>)
       ELSE IF MiningGain(fleets[FindMiner(1, systemId)], systemId) <= 0
       THEN Reject("mineAsteroid", <<Entry("ALERT", "MINING FAILED: No resources")>>)
       ELSE LET newRes == addMetals(resources, Asteroids[systemId].metalTier,
                              MiningGain(fleets[FindMiner(1, systemId)], systemId))
            IN  /\ WithinCap(newRes)
                /\ resources' = newRes
                /\ intelLog' = <<Entry("MINE", "MINING from object")>>
                /\ lastCall' = [op |-> "mineAsteroid", ret |-> "true"]
                /\ pc' = "returned"
                /\ UNCHANGED <<extVars, phase, turn, galaxy, fleets, selectedSystemId,
                               selectedFleetId, rtVars, nextUid, movesMade>>

----------------------------------------------------------------------------
(* Enemy phase *)

RECURSIVE ScanTowardSol_LastAdjacent(_, _, _, _)
\* a scan that keeps the last adjacent system, whatever its distance to SOL
ScanTowardSol_LastAdjacent(from, i, bestId, bestDist) ==
    IF i > Len(SystemOrder) THEN bestId
    ELSE IF hexDistance(SystemCoord[from], SystemCoord[SystemOrder[i]]) # 1
    THEN ScanTowardSol_LastAdjacent(from, i + 1, bestId, bestDist)
    ELSE ScanTowardSol_LastAdjacent(from, i + 1, SystemOrder[i], 0)

RECURSIVE ScanTowardSol(_, _, _, _)
\* enemyPhaseStep: the loop over Object.values(state.galaxy) picking bestId
\* (bestDist is only read once bestId is set, as with the initial Infinity)
ScanTowardSol(from, i, bestId, bestDist) ==
    IF i > Len(SystemOrder) THEN bestId
    ELSE LET s == SystemOrder[i]
             d == hexDistance(SystemCoord[from], SystemCoord[s])
             distToSol == hexDistance(SystemCoord[s], SystemCoord["SOL"])
         IN  IF d # 1 THEN ScanTowardSol(from, i + 1, bestId, bestDist)
             ELSE IF bestId = "null" \/ distToSol < bestDist
             THEN ScanTowardSol(from, i + 1, s, distToSol)
             ELSE ScanTowardSol(from, i + 1, bestId, bestDist)

\* enemyPhaseStep: what the loop body makes of one enemy fleet
EnemyFleetStep(f) ==
    IF f.location \notin Systems THEN [f EXCEPT !.movesLeft = f.maxMoves]
    ELSE IF ScanTowardSol(f.location, 1, "null", 0) = "null"
    THEN [f EXCEPT !.movesLeft = f.maxMoves]
    ELSE [f EXCEPT !.location = ScanTowardSol(f.location, 1, "null", 0),
                   !.movesLeft = f.maxMoves - 1]

RECURSIVE EnemyMoveLog(_)
\* the ENEMY MOVE entries of enemyPhaseStep, in fleet order
EnemyMoveLog(i) ==
    IF i > Len(FleetOrder) THEN <<>>
    ELSE IF /\ FleetOrder[i] \in DOMAIN fleets
            /\ fleets[FleetOrder[i]].owner = "ENEMY"
            /\ EnemyFleetStep(fleets[FleetOrder[i]]).location
                   # fleets[FleetOrder[i]].location
         THEN <<Entry("MOVE", "ENEMY MOVE")>> \o EnemyMoveLog(i + 1)
         ELSE EnemyMoveLog(i + 1)

enemyPhaseStep(fs) ==
    [id \in DOMAIN fs |->
        IF fs[id].owner = "ENEMY" THEN EnemyFleetStep(fs[id]) ELSE fs[id]]

----------------------------------------------------------------------------
(* endTurn(): four sub-steps, in the order of the function body *)

\* generateTurnSummary: some tier of resourcesGained is positive
SummaryHasGain ==
    \E id \in DOMAIN fleets :
        /\ fleets[id].owner = "PLAYER"
        /\ fleets[id].role = "MINER"
        /\ fleets[id].location \in AsteroidSystems
        /\ MiningGain(fleets[id], fleets[id].location) > 0

\* summary entries, then 1) applyMiningForPlayerTurn()
EndTurnMining ==
    /\ pc = "idle"
    /\ phase = "PLAYER"
    /\ turn < MaxTurn
    /\ LET summary == <<Entry("SYSTEM", "TURN SUMMARY")>>
                      \o (IF SummaryHasGain
                          THEN <<Entry("MINE", "Resources gained")>> ELSE <<>>)
           mined == MiningPass(1, galaxy, resources, summary)
       IN  /\ galaxy' = mined.galaxy
           /\ resources' = mined.resources
           /\ intelLog' = mined.log
    /\ pc' = "mined"
    /\ lastCall' = [op |-> "endTurn", ret |-> "void"]
    /\ UNCHANGED <<extVars, phase, turn, fleets, selectedSystemId, selectedFleetId,
                   rtVars, nextUid, movesMade>>

\* 2) switch to enemy phase
EndTurnEnemyPhase ==
    /\ pc = "mined"
    /\ phase' = "ENEMY"
    /\ fleets' = resetMovesFor(fleets, "ENEMY")
    /\ intelLog' = Append(intelLog, Entry("SYSTEM", "Enemy phase begins"))
    /\ pc' = "enemy"
    /\ UNCHANGED <<extVars, turn, galaxy, resources, selectedSystemId, selectedFleetId,
                   rtVars, nextUid, lastCall, movesMade>>

\* 3) enemyPhaseStep()
EndTurnEnemyStep ==
    /\ pc = "enemy"
    /\ fleets' = enemyPhaseStep(fleets)
    /\ intelLog' = intelLog \o EnemyMoveLog(1)
    /\ pc' = "enemyDone"
    /\ UNCHANGED <<extVars, phase, turn, galaxy, resources, selectedSystemId,
                   selectedFleetId, rtVars, nextUid, lastCall, movesMade>>

\* 4) start next turn
\* an endTurn() that returns without leaving the enemy phase
EndTurnPlayerPhase_StaysEnemy ==
    /\ pc = "enemyDone"
    /\ intelLog' = Append(intelLog, Entry("SYSTEM", "Player phase begins"))
    /\ pc' = "returned"
    /\ UNCHANGED <<extVars, phase, turn, fleets, movesMade, galaxy, resources,
                   selectedSystemId, selectedFleetId, rtVars, nextUid, lastCall>>

EndTurnPlayerPhase ==
    /\ pc = "enemyDone"
    /\ phase' = "PLAYER"
    /\ turn' = turn + 1
    /\ fleets' = resetMovesFor(fleets, "PLAYER")
    /\ movesMade' = [id \in DOMAIN fleets |-> 0]
    /\ intelLog' = Append(intelLog, Entry("SYSTEM", "Player phase begins"))
    /\ pc' = "returned"
    /\ UNCHANGED <<extVars, galaxy, resources, selectedSystemId, selectedFleetId,
                   rtVars, nextUid, lastCall>>

\* advanceTurn(): in the player phase endTurn(), of which this is the summary
\* and the mining pass, the other sub-steps following as for endTurn; in the
\* enemy phase the start of the next player turn. The timer set there for an
\* automatic end of turn fires outside the call.
advanceTurn ==
    /\ pc = "idle"
    /\ IF phase = "PLAYER"
       THEN /\ turn < MaxTurn
            /\ LET summary == <<Entry("SYSTEM", "TURN SUMMARY")>>
                              \o (IF SummaryHasGain
                                  THEN <<Entry("MINE", "Resources gained")>> ELSE <<>>)
                   mined == MiningPass(1, galaxy, resources, summary)
               IN  /\ galaxy' = mined.galaxy
                   /\ resources' = mined.resources
                   /\ intelLog' = mined.log
            /\ pc' = "mined"
            /\ lastCall' = [op |-> "advanceTurn", ret |-> "void"]
            /\ UNCHANGED <<extVars, phase, turn, fleets, selectedSystemId,
                           selectedFleetId, rtVars, nextUid, movesMade>>
       ELSE /\ turn < MaxTurn
            /\ phase' = "PLAYER"
            /\ turn' = turn + 1
            /\ fleets' = resetMovesFor(fleets, "PLAYER")
            /\ movesMade' = [id \in DOMAIN fleets |-> 0]
            /\ intelLog' = <<Entry("SYSTEM", "Player phase begins")>>
            /\ lastCall' = [op |-> "advanceTurn", ret |-> "void"]
            /\ pc' = "returned"
            /\ UNCHANGED <<extVars, galaxy, resources, selectedSystemId,
                           selectedFleetId, rtVars, nextUid>>

----------------------------------------------------------------------------
(* Real-time game management *)

\* GAME_SPEEDS[i].multiplier, for the index i = 0..3 of the source
GAME_SPEEDS == <<0, 1, 2, 4>>

isPaused == GAME_SPEEDS[currentGameSpeedIndex + 1] = 0

setGameSpeed(index) ==
    /\ pc = "idle"
    /\ lastCall' = [op |-> "setGameSpeed", ret |-> "void"]
    /\ IF index >= 0 /\ index < Len(GAME_SPEEDS)
       THEN /\ currentGameSpeedIndex' = index
            /\ intelLog' = <<Entry("SYSTEM", "Game speed")>>
       ELSE /\ intelLog' = <<>>
            /\ UNCHANGED currentGameSpeedIndex
    /\ pc' = "returned"
    /\ UNCHANGED <<extVars, rootVars, gameTime, activeMovements, lastAIActionTime,
                   nextUid, movesMade>>

\* per-second rates of RESOURCE_GENERATION_RATE, in tenths
RESOURCE_GENERATION_RATE == [T1 |-> 5, T2 |-> 2, T3 |-> 1]

\* seconds per hex, and seconds between AI actions
MOVEMENT_TIME_PER_HEX == 3
AI_ACTION_INTERVAL == 5

HasMovement(movements, fleetId) ==
    \E i \in 1..Len(movements) : movements[i].fleetId = fleetId

\* a movement whose destination is filled in from the wrong argument
Movement_WrongTarget(fleetId, f, targetSystemId, startTime) ==
    [fleetId      |-> fleetId,
     fromSystemId |-> f.location,
     toSystemId   |-> fleetId,
     startTime    |-> startTime,
     duration     |-> [num |-> MOVEMENT_TIME_PER_HEX * 3 * TimeScale,
                       den |-> f.maxMoves]]

\* the FleetMovement startFleetMovement creates; duration is
\* MOVEMENT_TIME_PER_HEX / (maxMoves / 3), kept as the fraction num/den so
\* that maxMoves = 0 (division by zero, Infinity) is a duration never reached
Movement(fleetId, f, targetSystemId, startTime) ==
    [fleetId      |-> fleetId,
     fromSystemId |-> f.location,
     toSystemId   |-> targetSystemId,
     startTime    |-> startTime,
     duration     |-> [num |-> MOVEMENT_TIME_PER_HEX * 3 * TimeScale,
                       den |-> f.maxMoves]]

\* startFleetMovement accepts the movement
CanStartMovement(fs, movements, fleetId, targetSystemId) ==
    /\ fleetId \in DOMAIN fs
    /\ targetSystemId \in Systems
    /\ fs[fleetId].location \in Systems
    /\ hexDistance(SystemCoord[fs[fleetId].location], SystemCoord[targetSystemId]) = 1
    /\ ~HasMovement(movements, fleetId)

startFleetMovement(fleetId, targetSystemId) ==
    /\ pc = "idle"
    /\ IF ~CanStartMovement(fleets, activeMovements, fleetId, targetSystemId)
       THEN Reject("startFleetMovement", <<>>)
       ELSE /\ activeMovements' = Append(activeMovements,
                    Movement(fleetId, fleets[fleetId], targetSystemId, gameTime))
            /\ intelLog' = <<Entry("MOVE", "MOVING")>>
            /\ lastCall' = [op |-> "startFleetMovement", ret |-> "true"]
            /\ pc' = "returned"
            /\ UNCHANGED <<extVars, rootVars, currentGameSpeedIndex, gameTime,
                           lastAIActionTime, nextUid, movesMade>>

RECURSIVE GenerateResources(_, _, _)
\* updateResourceGeneration: the loop over Object.values(state.galaxy); every
\* station record has owner PLAYER and type MINING (generationMultiplier 2)
GenerateResources(i, res, adjustedDelta) ==
    IF i > Len(SystemOrder) THEN res
    ELSE LET s == SystemOrder[i]
         IN  IF galaxy[s].station # "NONE" /\ s \in AsteroidSystems
             THEN GenerateResources(i + 1,
                      addMetals(res, Asteroids[s].metalTier,
                          (RESOURCE_GENERATION_RATE[Asteroids[s].metalTier] * 2
                              * adjustedDelta) \div (10 * TimeScale)),
                      adjustedDelta)
             ELSE GenerateResources(i + 1, res, adjustedDelta)

\* elapsed >= movement.duration
MovementDone(m, now) ==
    (now - m.startTime) * m.duration.den >= m.duration.num

RECURSIVE ArriveFleets(_, _, _, _)
\* updateFleetMovements: the loop over activeMovements
ArriveFleets(i, fs, log, now) ==
    IF i > Len(activeMovements) THEN [fleets |-> fs, log |-> log]
    ELSE LET m == activeMovements[i]
         IN  IF MovementDone(m, now) /\ m.fleetId \in DOMAIN fs
             THEN ArriveFleets(i + 1, [fs EXCEPT ![m.fleetId].location = m.toSystemId],
                               Append(log, Entry("MOVE", "ARRIVED")), now)
             ELSE ArriveFleets(i + 1, fs, log, now)

RECURSIVE ScanCloserToSol(_, _, _, _)
\* executeAIActions: the loop over Object.entries(state.galaxy) picking
\* bestTarget, starting from the fleet's own distance to SOL
ScanCloserToSol(from, i, bestTarget, bestDistance) ==
    IF i > Len(SystemOrder) THEN bestTarget
    ELSE LET s == SystemOrder[i]
             distanceToSol == hexDistance(SystemCoord[s], SystemCoord["SOL"])
         IN  IF /\ hexDistance(SystemCoord[from], SystemCoord[s]) = 1
                /\ distanceToSol < bestDistance
             THEN ScanCloserToSol(from, i + 1, s, distanceToSol)
             ELSE ScanCloserToSol(from, i + 1, bestTarget, bestDistance)

RECURSIVE ExecuteAI(_, _, _, _, _)
\* executeAIActions: the loop over the enemy fleets, each calling
\* startFleetMovement toward its bestTarget
ExecuteAI(i, fs, movements, log, now) ==
    IF i > Len(FleetOrder) THEN [movements |-> movements, log |-> log]
    ELSE LET id == FleetOrder[i]
             target == ScanCloserToSol(fs[id].location, 1, "null",
                           hexDistance(SystemCoord[fs[id].location], SystemCoord["SOL"]))
         IN  IF /\ id \in DOMAIN fs
                /\ fs[id].owner = "ENEMY"
                /\ fs[id].location # "SOL"
                /\ fs[id].location \in Systems
                /\ target # "null"
                /\ ~HasMovement(movements, id)
                /\ CanStartMovement(fs, movements, id, target)
             THEN ExecuteAI(i + 1, fs,
                      Append(movements, Movement(id, fs[id], target, now)),
                      Append(log, Entry("MOVE", "MOVING")), now)
             ELSE ExecuteAI(i + 1, fs, movements, log, now)

\* deltaTime values (in 1/TimeScale second) the host passes to a tick
DeltaTimes == {9}

updateRealTimeGame(deltaTime) ==
    /\ pc = "idle"
    /\ lastCall' = [op |-> "updateRealTimeGame", ret |-> "void"]
    /\ pc' = "returned"
    /\ IF isPaused
       THEN /\ intelLog' = <<>>
            /\ UNCHANGED <<extVars, rootVars, rtVars, nextUid, movesMade>>
       ELSE LET adjustedDelta == deltaTime * GAME_SPEEDS[currentGameSpeedIndex + 1]
                now == gameTime + adjustedDelta
                newRes == GenerateResources(1, resources, adjustedDelta)
                arrived == ArriveFleets(1, fleets, <<>>, now)
                remaining == SelectSeq(activeMovements,
                                       LAMBDA m : ~MovementDone(m, now))
                aiDue == lastAIActionTime + adjustedDelta
                             >= AI_ACTION_INTERVAL * TimeScale
                ai == IF aiDue
                      THEN ExecuteAI(1, arrived.fleets, remaining, arrived.log, now)
                      ELSE [movements |-> remaining, log |-> arrived.log]
            IN  /\ now <= MaxGameTime
                /\ gameTime' = now
                /\ resources' = newRes
                /\ fleets' = arrived.fleets
                /\ activeMovements' = ai.movements
                /\ lastAIActionTime' = IF aiDue THEN 0
                                       ELSE lastAIActionTime + adjustedDelta
                /\ intelLog' = ai.log
                /\ UNCHANGED <<extVars, phase, turn, galaxy, selectedSystemId,
                               selectedFleetId, currentGameSpeedIndex, nextUid,
                               movesMade>>

----------------------------------------------------------------------------
(* Planets: Invasion.ts, Reinforcement.ts and the planet actions of GameState.ts *)

\* planet.invasion of a planet that is not under invasion (undefined)
NoInvasion == [active |-> FALSE]

\* a value of type Planet (types.ts); population plays no part in any action
Planet(controller, troops, defenses, garrison, fortification, unrest) ==
    [controller   |-> controller,
     groundTroops |-> troops,
     defenses     |-> defenses,
     defense      |-> [control |-> controller, garrison |-> garrison,
                       fortification |-> fortification, unrest |-> unrest],
     invasion     |-> NoInvasion]

RECURSIVE FindPlanetSystem(_, _)
\* the loop over Object.values(state.galaxy) that looks a planet id up:
\* the first system that has it, "null" if none
FindPlanetSystem(i, planetId) ==
    IF i > Len(SystemOrder) THEN "null"
    ELSE IF planetId \in DOMAIN galaxy[SystemOrder[i]].planets THEN SystemOrder[i]
    ELSE FindPlanetSystem(i + 1, planetId)

startInvasion(planetId, strength, attacker) ==
    /\ pc = "idle"
    /\ LET sys == FindPlanetSystem(1, planetId)
       IN  IF sys = "null"
           THEN Reject("startInvasion", <<Entry("ALERT", "INVASION FAILED: not found")>>)
           ELSE IF galaxy[sys].planets[planetId].invasion.active
           THEN Reject("startInvasion", <<Entry("ALERT", "INVASION FAILED: already under invasion")>>)
           ELSE IF galaxy[sys].planets[planetId].defense.control = attacker
           THEN Reject("startInvasion", <<Entry("ALERT", "INVASION FAILED: own planet")>>)
           ELSE IF strength <= 0
           THEN Reject("startInvasion", <<Entry("ALERT", "INVASION FAILED: strength")>>)
           ELSE /\ galaxy' = [galaxy EXCEPT ![sys].planets[planetId] =
                                 [@ EXCEPT !.invasion = [active |-> TRUE,
                                                         attacker |-> attacker,
                                                         invasionStrength |-> strength,
                                                         turnsOngoing |-> 0],
                                           !.defense.control = "CONTESTED",
                                           !.controller = "CONTESTED"]]
                /\ beforeInvasion' =
                       [q \in DOMAIN beforeInvasion \cup {planetId} |->
                           IF q = planetId
                           THEN [controller |->
                                     galaxy[sys].planets[planetId].controller,
                                 control |->
                                     galaxy[sys].planets[planetId].defense.control,
                                 garrison |->
                                     galaxy[sys].planets[planetId].defense.garrison,
                                 fortification |->
                                     galaxy[sys].planets[planetId].defense.fortification,
                                 strength |-> strength]
                           ELSE beforeInvasion[q]]
                /\ intelLog' = <<Entry("ALERT", "INVASION START")>>
                /\ lastCall' = [op |-> "startInvasion", ret |-> "true"]
                /\ pc' = "returned"
                /\ UNCHANGED <<walk, rngs, storage, olderLog, phase, turn, fleets, resources,
                               selectedSystemId, selectedFleetId, rtVars,
                               nextUid, movesMade>>

\* a tick that looks at the invasion strength before it looks at the garrison
resolveInvasionTick_DefenderFirst(planet) ==
    LET inv == planet.invasion
        def == planet.defense
        attackDamage == Max2(1, inv.invasionStrength - def.fortification)
        defenseDamage == Max2(1, def.garrison)
        garrison == Max2(0, def.garrison - attackDamage)
        strength == Max2(0, inv.invasionStrength - defenseDamage)
        defender == IF inv.attacker = "PLAYER" THEN "ENEMY" ELSE "PLAYER"
    IN  IF strength <= 0
        THEN [planet EXCEPT !.controller = defender,
                            !.defense = [control |-> defender, garrison |-> garrison,
                                         fortification |-> def.fortification,
                                         unrest |-> Max2(0, def.unrest + 1 - 3)],
                            !.invasion = NoInvasion]
        ELSE IF garrison <= 0
        THEN [planet EXCEPT !.controller = inv.attacker,
                            !.defense = [control |-> inv.attacker,
                                         garrison |-> Max2(1, strength \div 2),
                                         fortification |-> def.fortification,
                                         unrest |-> Max2(0, def.unrest + 1 - 2)],
                            !.invasion = NoInvasion]
        ELSE [planet EXCEPT !.defense.garrison = garrison,
                            !.defense.unrest = def.unrest + 1,
                            !.invasion.invasionStrength = strength,
                            !.invasion.turnsOngoing = inv.turnsOngoing + 1]

\* an attack that does no damage once the walls outweigh the invaders
AttackDamage_NoMinimum(planet) ==
    Max2(0, planet.invasion.invasionStrength - planet.defense.fortification)

\* resolveInvasionTick: the damage of the invaders to the garrison
AttackDamage(planet) ==
    Max2(1, planet.invasion.invasionStrength - planet.defense.fortification)

\* resolveInvasionTick: the planet one tick later (the planet has an invasion)
resolveInvasionTick(planet) ==
    LET inv == planet.invasion
        def == planet.defense
        attackDamage == AttackDamage(planet)
        defenseDamage == Max2(1, def.garrison)
        garrison == Max2(0, def.garrison - attackDamage)
        strength == Max2(0, inv.invasionStrength - defenseDamage)
        defender == IF inv.attacker = "PLAYER" THEN "ENEMY" ELSE "PLAYER"
    IN  IF garrison <= 0
        THEN [planet EXCEPT !.controller = inv.attacker,
                            !.defense = [control |-> inv.attacker,
                                         garrison |-> Max2(1, strength \div 2),
                                         fortification |-> def.fortification,
                                         unrest |-> Max2(0, def.unrest + 1 - 2)],
                            !.invasion = NoInvasion]
        ELSE IF strength <= 0
        THEN [planet EXCEPT !.controller = defender,
                            !.defense = [control |-> defender, garrison |-> garrison,
                                         fortification |-> def.fortification,
                                         unrest |-> Max2(0, def.unrest + 1 - 3)],
                            !.invasion = NoInvasion]
        ELSE [planet EXCEPT !.defense.garrison = garrison,
                            !.defense.unrest = def.unrest + 1,
                            !.invasion.invasionStrength = strength,
                            !.invasion.turnsOngoing = inv.turnsOngoing + 1]

\* the entry resolveInvasionTick pushes for a planet
TickEntry(planet) ==
    IF resolveInvasionTick(planet).invasion.active
    THEN Entry("SYSTEM", "INVASION")
    ELSE IF resolveInvasionTick(planet).controller = planet.invasion.attacker
    THEN Entry("ALERT", "CAPTURED")
    ELSE Entry("ALERT", "INVASION FAILED")

\* planet ids, in the order in which they were inserted into their system
PlanetOrder == <<"SOL-P1">>

RECURSIVE TickLog(_, _)
\* the entries of resolveInvasions, in the order of invasionsToResolve
TickLog(i, j) ==
    IF i > Len(SystemOrder) THEN <<>>
    ELSE IF j > Len(PlanetOrder) THEN TickLog(i + 1, 1)
    ELSE LET ps == galaxy[SystemOrder[i]].planets
         IN  IF PlanetOrder[j] \in DOMAIN ps /\ ps[PlanetOrder[j]].invasion.active
             THEN <<TickEntry(ps[PlanetOrder[j]])>> \o TickLog(i, j + 1)
             ELSE TickLog(i, j + 1)

\* resolveInvasions(): one tick for every planet that has an invasion
resolveInvasions ==
    /\ pc = "idle"
    /\ galaxy' = [s \in DOMAIN galaxy |->
                     [galaxy[s] EXCEPT !.planets =
                         [p \in DOMAIN galaxy[s].planets |->
                             IF galaxy[s].planets[p].invasion.active
                             THEN resolveInvasionTick(galaxy[s].planets[p])
                             ELSE galaxy[s].planets[p]]]]
    /\ beforeInvasion' =
           [q \in {r \in DOMAIN beforeInvasion :
                      \E s \in DOMAIN galaxy :
                          /\ r \in DOMAIN galaxy[s].planets
                          /\ galaxy[s].planets[r].invasion.active
                          /\ resolveInvasionTick(galaxy[s].planets[r]).invasion.active}
               |-> beforeInvasion[q]]
    /\ intelLog' = TickLog(1, 1)
    /\ lastCall' = [op |-> "resolveInvasions", ret |-> "void"]
    /\ pc' = "returned"
    /\ UNCHANGED <<walk, rngs, storage, olderLog, phase, turn, fleets, resources,
                   selectedSystemId, selectedFleetId, rtVars, nextUid,
                   movesMade>>

\* reinforcePlanet(planetId, amount, owner) of Reinforcement.ts
reinforcePlanet(planetId, amount, owner) ==
    /\ pc = "idle"
    /\ LET sys == FindPlanetSystem(1, planetId)
       IN  IF sys = "null"
           THEN Reject("reinforcePlanet", <<Entry("ALERT", "REINFORCEMENT FAILED: not found")>>)
           ELSE IF galaxy[sys].planets[planetId].defense.control # owner
           THEN Reject("reinforcePlanet", <<Entry("ALERT", "REINFORCEMENT FAILED: enemy planet")>>)
           ELSE IF amount <= 0
           THEN Reject("reinforcePlanet", <<Entry("ALERT", "REINFORCEMENT FAILED: amount")>>)
           ELSE /\ galaxy[sys].planets[planetId].defense.garrison + amount <= MaxGarrison
                /\ galaxy[sys].planets[planetId].groundTroops + amount <= MaxTroops
                /\ galaxy' = [galaxy EXCEPT ![sys].planets[planetId] =
                                 [@ EXCEPT !.defense.garrison = @ + amount,
                                           !.groundTroops = @ + amount,
                                           !.defense.unrest =
                                               Max2(0, @ - (amount \div 10))]]
                /\ intelLog' = <<Entry("SYSTEM", "REINFORCED")>>
                /\ lastCall' = [op |-> "reinforcePlanet", ret |-> "true"]
                /\ pc' = "returned"
                /\ UNCHANGED <<extVars, phase, turn, fleets, resources,
                               selectedSystemId, selectedFleetId, rtVars,
                               nextUid, movesMade>>

\* reinforcePlanet(systemId, planetId, fleetId) of GameState.ts
reinforcePlanetByFleet(systemId, planetId, fleetId) ==
    /\ pc = "idle"
    /\ IF \/ systemId \notin Systems
          \/ fleetId \notin DOMAIN fleets
       THEN Reject("reinforcePlanetByFleet", <<>>)
       ELSE IF planetId \notin DOMAIN galaxy[systemId].planets
       THEN Reject("reinforcePlanetByFleet", <<>>)
       ELSE IF fleets[fleetId].location # systemId
       THEN Reject("reinforcePlanetByFleet", <<>>)
       ELSE IF fleets[fleetId].owner # galaxy[systemId].planets[planetId].controller
       THEN Reject("reinforcePlanetByFleet", <<>>)
       ELSE LET transferTroops == IF fleets[fleetId].groundTroops < 20
                                  THEN fleets[fleetId].groundTroops ELSE 20
            IN  /\ fleets' = [fleets EXCEPT ![fleetId].groundTroops = @ - transferTroops]
                /\ galaxy' = [galaxy EXCEPT
                                 ![systemId].planets[planetId].groundTroops =
                                     @ + transferTroops]
                /\ intelLog' = <<Entry("SYSTEM", "PLANET REINFORCED")>>
                /\ lastCall' = [op |-> "reinforcePlanetByFleet", ret |-> "true"]
                /\ pc' = "returned"
                /\ UNCHANGED <<extVars, phase, turn, resources, selectedSystemId,
                               selectedFleetId, rtVars, nextUid, movesMade>>

RECURSIVE calculateFleetStrength(_, _)
\* the sum over the ships of firepower + toughness
calculateFleetStrength(ships, i) ==
    IF i > Len(ships) THEN 0
    ELSE ships[i].firepower + ships[i].toughness
             + calculateFleetStrength(ships, i + 1)

\* the values Math.random() returns, in hundredths
Rolls == {0, 99}

\* Math.floor(roll * (tenths / 10) * n) for a roll in hundredths
RandomLosses(roll, tenths, n) == (roll * tenths * n) \div 1000

\* invadePlanet(systemId, planetId, attackerFleetId); the four calls of
\* Math.random() are the four rolls
invadePlanet(systemId, planetId, attackerFleetId) ==
    /\ pc = "idle"
    /\ IF \/ systemId \notin Systems
          \/ attackerFleetId \notin DOMAIN fleets
       THEN Reject("invadePlanet", <<>>)
       ELSE IF planetId \notin DOMAIN galaxy[systemId].planets
       THEN Reject("invadePlanet", <<>>)
       ELSE IF fleets[attackerFleetId].location # systemId
       THEN Reject("invadePlanet", <<>>)
       ELSE IF fleets[attackerFleetId].role # "COMBAT"
       THEN Reject("invadePlanet", <<>>)
       ELSE IF fleets[attackerFleetId].owner = galaxy[systemId].planets[planetId].controller
       THEN Reject("invadePlanet", <<>>)
       ELSE LET fleet == fleets[attackerFleetId]
                planet == galaxy[systemId].planets[planetId]
                attackerStrength == calculateFleetStrength(fleet.ships, 1)
                                        + fleet.groundTroops
                defenderStrength == planet.defenses + planet.groundTroops
            IN  \E attackerRoll \in Rolls, defenderRoll \in Rolls,
                   attackerLuck \in Rolls, defenderLuck \in Rolls :
                  LET success == attackerRoll * attackerStrength
                                     > defenderRoll * defenderStrength
                      attackerLosses ==
                          RandomLosses(attackerLuck, IF success THEN 3 ELSE 5,
                                       fleet.groundTroops)
                      defenderLosses ==
                          RandomLosses(defenderLuck, IF success THEN 8 ELSE 2,
                                       planet.groundTroops)
                      fleetLeft == Max2(0, fleet.groundTroops - attackerLosses)
                      planetLeft == Max2(0, planet.groundTroops - defenderLosses)
                      occupationTroops == IF fleetLeft < 30 THEN fleetLeft ELSE 30
                  IN  /\ IF success
                         THEN /\ fleets' = [fleets EXCEPT ![attackerFleetId].groundTroops =
                                               fleetLeft - occupationTroops]
                              /\ galaxy' = [galaxy EXCEPT ![systemId].planets[planetId] =
                                               [@ EXCEPT !.groundTroops =
                                                             planetLeft + occupationTroops,
                                                         !.controller = fleet.owner,
                                                         !.defenses = Max2(0, @ - 20)]]
                              /\ intelLog' = <<Entry("SYSTEM", "PLANET CONQUERED")>>
                              /\ lastCall' = [op |-> "invadePlanet", ret |-> "true"]
                         ELSE /\ fleets' = [fleets EXCEPT ![attackerFleetId].groundTroops =
                                               fleetLeft]
                              /\ galaxy' = [galaxy EXCEPT
                                               ![systemId].planets[planetId].groundTroops =
                                                   planetLeft]
                              /\ intelLog' = <<Entry("SYSTEM", "INVASION FAILED: defended")>>
                              /\ lastCall' = [op |-> "invadePlanet", ret |-> "false"]
                      /\ pc' = "returned"
                      /\ UNCHANGED <<extVars, phase, turn, resources, selectedSystemId,
                                     selectedFleetId, rtVars, nextUid, movesMade>>

----------------------------------------------------------------------------
(* Persistence: saveGame / loadGame *)

\* pushIntel keeps the last LOG_CAP entries
LOG_CAP == 200

\* a splice that cuts the log at the cap from the wrong end
CapLog_KeepsOldest(log) ==
    IF Len(log) > LOG_CAP THEN SubSeq(log, 1, LOG_CAP) ELSE log

\* pushIntel's splice, applied to the log with the entries of a call pushed
CapLog(log) ==
    IF Len(log) > LOG_CAP THEN SubSeq(log, Len(log) - LOG_CAP + 1, Len(log))
    ELSE log

\* state.intelLog
FullLog == CapLog(olderLog \o intelLog)

\* top-level keys of the root object
RootKeys == {"version", "turn", "phase", "galaxy", "fleets", "resources",
             "selectedSystemId", "selectedFleetId", "intelLog"}

\* a root object that has lost the fleet selection
RootState_NoSelection ==
    [version |-> 1, turn |-> turn, phase |-> phase, galaxy |-> galaxy,
     fleets |-> fleets, resources |-> resources,
     selectedSystemId |-> selectedSystemId,
     selectedFleetId |-> "null", intelLog |-> FullLog]

\* the object `state` as saveGame reads it
RootState ==
    [version |-> 1, turn |-> turn, phase |-> phase, galaxy |-> galaxy,
     fleets |-> fleets, resources |-> resources,
     selectedSystemId |-> selectedSystemId,
     selectedFleetId |-> selectedFleetId, intelLog |-> FullLog]

\* what localStorage.getItem(STORAGE_KEY) can hand back: nothing, a text
\* that is not JSON, the JSON text null, or the text of a document
NoItem == [kind |-> "none"]
NotJson == [kind |-> "garbage"]
JsonNull == [kind |-> "jsonNull"]

\* JSON.stringify(root): the text of a document with the given keys; the
\* module-level real-time variables are not part of it
Stringify(root, keys) == [kind |-> "doc", keys |-> keys, root |-> root]

\* a check of the stored text that lets any version through
LoadFailure_AnyVersion(raw) ==
    IF raw.kind = "none" THEN "LOAD FAILED: No save found"
    ELSE IF raw.kind = "garbage" THEN "LOAD FAILED: Could not parse save"
    ELSE IF raw.kind = "jsonNull" THEN "LOAD FAILED: Bad save version"
    ELSE IF ~({"galaxy", "fleets", "resources"} \subseteq raw.keys)
    THEN "LOAD FAILED: Corrupt save data"
    ELSE "none"

\* loadGame: the alert of the check that fails on the stored text, in the
\* order of the checks, "none" when the text is accepted
LoadFailure(raw) ==
    IF raw.kind = "none" THEN "LOAD FAILED: No save found"
    ELSE IF raw.kind = "garbage" THEN "LOAD FAILED: Could not parse save"
    ELSE IF raw.kind = "jsonNull" THEN "LOAD FAILED: Bad save version"
    ELSE IF "version" \notin raw.keys \/ raw.root.version # 1
    THEN "LOAD FAILED: Bad save version"
    ELSE IF ~({"galaxy", "fleets", "resources"} \subseteq raw.keys)
    THEN "LOAD FAILED: Corrupt save data"
    ELSE "none"

saveGame ==
    /\ pc = "idle"
    /\ storage' = Stringify(RootState, RootKeys)
    /\ intelLog' = <<Entry("SYSTEM", "SAVE: Game saved")>>
    /\ lastCall' = [op |-> "saveGame", ret |-> "void"]
    /\ pc' = "returned"
    /\ UNCHANGED <<walk, rngs, rootVars, rtVars, nextUid, movesMade, olderLog,
                   beforeInvasion>>

\* loadGame on a document that has every key of the root object (a document
\* without turn, phase, selection or log is outside the inputs drawn here)
loadGame ==
    /\ pc = "idle"
    /\ IF LoadFailure(storage) # "none"
       THEN Reject("loadGame", <<Entry("ALERT", LoadFailure(storage))>>)
       ELSE /\ storage.keys = RootKeys
            /\ phase' = storage.root.phase
            /\ turn' = storage.root.turn
            /\ galaxy' = storage.root.galaxy
            /\ fleets' = storage.root.fleets
            /\ resources' = storage.root.resources
            /\ selectedSystemId' = storage.root.selectedSystemId
            /\ selectedFleetId' = storage.root.selectedFleetId
            /\ olderLog' = storage.root.intelLog
            /\ intelLog' = <<Entry("SYSTEM", "LOAD: Game loaded")>>
            /\ movesMade' = [id \in DOMAIN storage.root.fleets |->
                                storage.root.fleets[id].maxMoves
                                    - storage.root.fleets[id].movesLeft]
            /\ lastCall' = [op |-> "loadGame", ret |-> "true"]
            /\ pc' = "returned"
            /\ UNCHANGED <<walk, rngs, storage, rtVars, nextUid, beforeInvasion>>

----------------------------------------------------------------------------
(* Inputs and the next-state relation *)

\* the caller has read the result of the call that returned and the entries
\* it pushed, and is about to make its next call
CallerContinues ==
    /\ pc = "returned"
    /\ pc' = "idle"
    /\ lastCall' = [op |-> "none", ret |-> "void"]
    /\ intelLog' = <<>>
    /\ UNCHANGED <<extVars, rootVars, rtVars, nextUid, movesMade>>

\* entries that were not in the log when the game was started
NewEntries(log) ==
    Cardinality({i \in 1..Len(log) : log[i].kind # "OLD"})

\* as CallerContinues, in the specifications that keep the log: the entries
\* of the call that returned join the older part of the log
CallerContinuesLogged ==
    /\ pc = "returned"
    /\ NewEntries(olderLog \o intelLog) <= MaxLog
    /\ pc' = "idle"
    /\ lastCall' = [op |-> "none", ret |-> "void"]
    /\ olderLog' = CapLog(olderLog \o intelLog)
    /\ intelLog' = <<>>
    /\ UNCHANGED <<walk, rngs, storage, rootVars, rtVars, nextUid, movesMade,
                   beforeInvasion>>

\* ids the caller may pass: every live fleet and one id of no fleet
FleetArgs == DOMAIN fleets \cup {"NOFLEET"}

\* ids the caller may pass: every system and one id of no system
SystemArgs == Systems \cup {"NOWHERE"}

BlueprintArgs == BlueprintKeys \cup {"NOBLUEPRINT"}

SpeedArgs == {0, 1, 4}

\* the turn-based calls: movement, on-demand mining and the turn pipeline
NextTurns ==
    \/ \E f \in FleetArgs, s \in SystemArgs : moveFleet(f, s)
    \/ \E s \in SystemArgs : mineAsteroid(s)
    \/ EndTurnMining
    \/ EndTurnEnemyPhase
    \/ EndTurnEnemyStep
    \/ EndTurnPlayerPhase
    \/ CallerContinues

\* a game from bootstrap, played through the turn-based calls
Spec == Init /\ [][NextTurns]_vars

\* levels of SOL's field late in a game: one extraction left, a residue
\* smaller than one extraction, and empty.  (In the source's floating point
\* 100 - 1000 * 0.1 leaves a positive residue of about 1.4e-12.)
LateYields == {DepletionAmount(1, "SOL"), 1, 0}

InitLate == \E y \in LateYields : BootWith(Metals(0, 0, 0), y)

\* a game whose SOL field is nearly exhausted, played through the same calls
SpecLate == InitLate /\ [][NextTurns]_vars

\* ledgers at the start of a building session: empty, and enough metal (mined
\* in earlier turns) for any one blueprint or a station
StartLedgers == {Metals(0, 0, 0), Metals(15, 10, 2)}

InitEconomy == \E ledger \in StartLedgers : BootWith(ledger, FullYield)

EconomyTargets == {"SOL", "ALPHA", "NOWHERE"}
BuildSites == {"SOL", "NOWHERE"}
StationSites == {"BETA", "NOWHERE"}

\* the calls of one player phase: build, dismantle, mine, move, select
NextEconomy ==
    \/ \E f \in FleetArgs, s \in EconomyTargets : moveFleet(f, s)
    \/ \E b \in BlueprintArgs, s \in BuildSites : buildFleet(b, s)
    \/ \E s \in StationSites, free \in BOOLEAN : buildStation(s, free)
    \/ \E f \in FleetArgs : dismantleFleet(f)
    \/ \E s \in EconomyTargets : mineAsteroid(s)
    \/ \E f \in FleetArgs : selectFleet(f)
    \/ \E s \in EconomyTargets : selectSystem(s)
    \/ CallerContinues

SpecEconomy == InitEconomy /\ [][NextEconomy]_vars

\* fleets handed to startFleetMovement
MoverArgs == {"MINER-1", "ENEMY-1", "NOFLEET"}

\* the real-time calls next to the calls they are meant to gate
NextRealTime ==
    \/ \E i \in SpeedArgs : setGameSpeed(i)
    \/ \E f \in MoverArgs, s \in EconomyTargets : startFleetMovement(f, s)
    \/ \E d \in DeltaTimes : updateRealTimeGame(d)
    \/ \E f \in FleetArgs, s \in EconomyTargets : moveFleet(f, s)
    \/ \E b \in BlueprintArgs, s \in BuildSites : buildFleet(b, s)
    \/ \E s \in StationSites, free \in BOOLEAN : buildStation(s, free)
    \/ \E s \in EconomyTargets : mineAsteroid(s)
    \/ CallerContinues

SpecRealTime == Init /\ [][NextRealTime]_vars

\* a document of an earlier session: the root object of a fresh game, with
\* the given version and top-level keys
OldDocument(version, keys) ==
    Stringify([version |-> version, turn |-> 1, phase |-> "PLAYER",
               galaxy |-> BootGalaxy(UidPool[1]),
               fleets |-> BootFleets(UidPool[1]),
               resources |-> Metals(0, 0, 0), selectedSystemId |-> "SOL",
               selectedFleetId |-> "MINER-1", intelLog |-> <<>>], keys)

\* what the store may hold when the session starts
StoredAtStart ==
    {NoItem, NotJson, JsonNull, OldDocument(2, RootKeys)}
    \cup {OldDocument(1, RootKeys \ {k}) : k \in {"galaxy", "fleets", "resources"}}

\* a log of LOG_CAP - 2 entries of play, the oldest of them marked
OldLog ==
    [i \in 1..(LOG_CAP - 2) |->
        [kind |-> "OLD", text |-> IF i = 1 THEN "OLDEST" ELSE "OLD"]]

InitPersistence ==
    \E stored \in StoredAtStart, older \in {<<>>, OldLog} :
        BootState(BootGalaxy(UidPool[1]), Metals(0, 0, 0), stored, older)

\* save, load and the calls that change what there is to save
NextPersistence ==
    \/ saveGame
    \/ loadGame
    \/ \E s \in EconomyTargets : moveFleet("MINER-1", s)
    \/ \E s \in {"SOL"} : mineAsteroid(s)
    \/ \E f \in {"MINER-1", UidPool[1]} : selectFleet(f)
    \/ CallerContinuesLogged

SpecPersistence == InitPersistence /\ [][NextPersistence]_vars

\* planets a game is started with: a planet at SOL with the fields of a
\* Planet, groundTroops equal to the garrison
PlanetArgs == {"SOL-P1", "NOPLANET"}

\* <<garrison, fortification, unrest>> of the planets a play starts with
StartDefenses == {<<10, 2, 0>>, <<3, 0, 3>>, <<3, 2, 0>>, <<0, 0, 1>>}

StartPlanets ==
    {Planet(c, d[1], IF c = "NEUTRAL" THEN 20 ELSE 40, d[1], d[2], d[3]) :
        c \in {"PLAYER", "ENEMY", "NEUTRAL"}, d \in StartDefenses}

InitInvasion ==
    \E planet \in StartPlanets :
        BootState([BootGalaxy(UidPool[1]) EXCEPT
                       !["SOL"].planets = ("SOL-P1" :> planet)],
                  Metals(0, 0, 0), NoItem, <<>>)

Strengths == {-1, 0, 3, 4, 20}
Amounts == {0, 10}
Sides == {"PLAYER", "ENEMY"}

\* the calls that act on a planet
NextInvasion ==
    \/ \E p \in PlanetArgs, strength \in Strengths, attacker \in Sides :
           startInvasion(p, strength, attacker)
    \/ resolveInvasions
    \/ \E p \in PlanetArgs, amount \in Amounts, owner \in Sides :
           reinforcePlanet(p, amount, owner)
    \/ \E s \in {"SOL", "NOWHERE"}, p \in PlanetArgs, f \in FleetArgs :
           reinforcePlanetByFleet(s, p, f)
    \/ \E s \in {"SOL", "NOWHERE"}, p \in PlanetArgs, f \in FleetArgs :
           invadePlanet(s, p, f)
    \/ CallerContinues

SpecInvasion == InitInvasion /\ [][NextInvasion]_vars

\* a turn-based play around a planet that can be put under siege
InitSiege ==
    \E planet \in {Planet("ENEMY", 10, 40, 10, 2, 0),
                    Planet("NEUTRAL", 3, 20, 3, 0, 3)} :
        BootState([BootGalaxy(UidPool[1]) EXCEPT
                       !["SOL"].planets = ("SOL-P1" :> planet)],
                  Metals(10, 0, 0), NoItem, <<>>)

\* the turn-based calls next to startInvasion; no code of the repository
\* calls resolveInvasions()
NextSiege ==
    \/ \E strength \in {0, 20}, attacker \in Sides :
           startInvasion("SOL-P1", strength, attacker)
    \/ EndTurnMining
    \/ EndTurnEnemyPhase
    \/ EndTurnEnemyStep
    \/ EndTurnPlayerPhase
    \/ \E s \in EconomyTargets : moveFleet("MINER-1", s)
    \/ \E b \in {"CORVETTE"}, s \in BuildSites : buildFleet(b, s)
    \/ \E s \in {"SOL"} : mineAsteroid(s)
    \/ \E f \in {"MINER-1", "NOFLEET"} : selectFleet(f)
    \/ saveGame
    \/ CallerContinues

SpecSiege == InitSiege /\ [][NextSiege]_vars

\* a play with a second combat fleet of PLAYER: one corvette can be built
InitReinforce ==
    \E planet \in {Planet("ENEMY", 3, 40, 3, 2, 0),
                    Planet("PLAYER", 0, 40, 0, 0, 1)} :
        BootState([BootGalaxy(UidPool[1]) EXCEPT
                       !["SOL"].planets = ("SOL-P1" :> planet)],
                  Metals(10, 0, 0), NoItem, <<>>)

\* the calls that add troops to a planet, and those that lead up to them
NextReinforce ==
    \/ \E strength \in {4}, attacker \in Sides :
           startInvasion("SOL-P1", strength, attacker)
    \/ resolveInvasions
    \/ \E amount \in Amounts, owner \in Sides :
           reinforcePlanet("SOL-P1", amount, owner)
    \/ \E f \in FleetArgs : reinforcePlanetByFleet("SOL", "SOL-P1", f)
    \/ \E f \in FleetArgs : invadePlanet("SOL", "SOL-P1", f)
    \/ \E b \in {"CORVETTE"}, s \in {"SOL"} : buildFleet(b, s)
    \/ CallerContinues

SpecReinforce == InitReinforce /\ [][NextReinforce]_vars

\* every call that debits or credits the ledger
NextLedger ==
    \/ \E b \in BlueprintArgs, s \in BuildSites : buildFleet(b, s)
    \/ \E s \in StationSites, free \in BOOLEAN : buildStation(s, free)
    \/ \E f \in FleetArgs : dismantleFleet(f)
    \/ \E s \in {"SOL"} : mineAsteroid(s)
    \/ EndTurnMining
    \/ EndTurnEnemyPhase
    \/ EndTurnEnemyStep
    \/ EndTurnPlayerPhase
    \/ \E i \in {1, 2} : setGameSpeed(i)
    \/ \E d \in DeltaTimes : updateRealTimeGame(d)
    \/ CallerContinues

\* a game in which the ledger is debited and credited in every way
SpecLedger == InitEconomy /\ [][NextLedger]_vars

\* every call that places a fleet or changes where a fleet is
NextFleets ==
    \/ \E f \in FleetArgs, s \in {"ALPHA", "NOWHERE"} : moveFleet(f, s)
    \/ \E b \in {"CORVETTE"}, s \in BuildSites : buildFleet(b, s)
    \/ \E s \in StationSites : buildStation(s, TRUE)
    \/ EndTurnMining
    \/ EndTurnEnemyPhase
    \/ EndTurnEnemyStep
    \/ EndTurnPlayerPhase
    \/ \E f \in {"MINER-1", "NOFLEET"}, s \in {"SOL", "ALPHA"} :
           startFleetMovement(f, s)
    \/ \E d \in DeltaTimes : updateRealTimeGame(d)
    \/ CallerContinues

\* a game in which fleets are built (the ledger holds the price of one
\* corvette), moved by both movement systems and stepped by the enemy phase
InitFleets == BootWith(Metals(10, 0, 0), FullYield)

SpecFleets == InitFleets /\ [][NextFleets]_vars

\* the calls of SpecFleets with selection, mining and dismantling
NextIntel ==
    \/ \E f \in FleetArgs, s \in {"ALPHA", "NOWHERE"} : moveFleet(f, s)
    \/ \E s \in EconomyTargets : selectSystem(s)
    \/ \E b \in {"CORVETTE"}, s \in {"ALPHA"} : buildFleet(b, s)
    \/ \E s \in StationSites : buildStation(s, TRUE)
    \/ \E f \in {"MINER-1"} : dismantleFleet(f)
    \/ \E s \in {"SOL"} : mineAsteroid(s)
    \/ EndTurnMining
    \/ EndTurnEnemyPhase
    \/ EndTurnEnemyStep
    \/ EndTurnPlayerPhase
    \/ \E f \in {"MINER-1", "NOFLEET"}, s \in {"SOL", "ALPHA"} :
           startFleetMovement(f, s)
    \/ \E d \in DeltaTimes : updateRealTimeGame(d)
    \/ CallerContinues

\* a game played through the calls that read or write state.galaxy
SpecIntel == InitFleets /\ [][NextIntel]_vars

TypeOK ==
    /\ phase \in {"PLAYER", "ENEMY"}
    /\ turn \in 1..MaxTurn
    /\ \A t \in Tiers : resources[t] \in Nat
    /\ pc \in {"idle", "mined", "enemy", "enemyDone", "returned"}

----------------------------------------------------------------------------
(* Claims *)

\* an API call has just returned
Returned(op, ret) == pc = "returned" /\ lastCall = [op |-> op, ret |-> ret]

\* b is one hexNeighbor step away from a
OneStep(a, b) ==
    \E i \in 1..Len(HEX_DIRS) :
        b.q = a.q + HEX_DIRS[i].q /\ b.r = a.r + HEX_DIRS[i].r

\* the four conditions of the claim, for an existing fleet and target
MovePermitted(fleetId, targetSystemId) ==
    /\ phase = "PLAYER"
    /\ fleets[fleetId].owner = "PLAYER"
    /\ fleets[fleetId].movesLeft > 0
    /\ OneStep(SystemCoord[fleets[fleetId].location], SystemCoord[targetSystemId])

\* C1: moveFleet returns true exactly when the fleet and the target exist,
\* phase is PLAYER, the fleet is player-owned, it has moves left and the
\* target is one hex step from the fleet's system; it then relocates the
\* fleet to the target, and otherwise (distance 0, distance 2 or more
\* included) leaves every fleet where it was.
C1_MoveOnlyAdjacent ==
    [][\A f \in FleetArgs, t \in SystemArgs :
          moveFleet(f, t) =>
              /\ lastCall'.ret = "true" <=>
                    (f \in DOMAIN fleets /\ t \in Systems /\ MovePermitted(f, t))
              /\ lastCall'.ret = "true" => fleets'[f].location = t
              /\ lastCall'.ret = "false" => fleets' = fleets]_vars

\* a move to an adjacent system has succeeded and used one move
C1_Witness ==
    /\ Returned("moveFleet", "true")
    /\ fleets["MINER-1"].location = "ALPHA"
    /\ fleets["MINER-1"].movesLeft = MOVES_PER_TURN - 1


----------------------------------------------------------------------------
(* C2: movement budget *)

\* C2: in every reachable state every fleet, player or enemy, has
\* 0 <= movesLeft <= maxMoves, and in a player phase a player fleet that has
\* made n successful moves since its budget was last reset has
\* movesLeft = maxMoves - n (movesMade counts the successful moveFleet calls
\* of the current turn; a rejected call counts nothing and changes nothing).
C2_MoveBudget ==
    \A id \in DOMAIN fleets :
        /\ 0 <= fleets[id].movesLeft
        /\ fleets[id].movesLeft <= fleets[id].maxMoves
        /\ (phase = "PLAYER" /\ fleets[id].owner = "PLAYER")
               => fleets[id].movesLeft = fleets[id].maxMoves - movesMade[id]

\* second turn: the enemy has spent one move of its reset budget and the
\* miner has just spent its second and last move
C2_Witness ==
    /\ Returned("moveFleet", "true")
    /\ turn = 2
    /\ movesMade["MINER-1"] = 2
    /\ fleets["MINER-1"].movesLeft = 0
    /\ fleets["ENEMY-1"].movesLeft = fleets["ENEMY-1"].maxMoves - 1

----------------------------------------------------------------------------
(* C3: the order of endTurn's sub-steps *)

\* no ENEMY MOVE entry of the current call's log comes before a MINE entry
MiningLoggedFirst(log) ==
    \A i, j \in 1..Len(log) :
        (log[i].kind = "MINE" /\ log[j].text = "ENEMY MOVE") => i < j

Locations(fs, owner) ==
    [id \in {x \in DOMAIN fs : fs[x].owner = owner} |-> fs[id].location]

Budgets(fs, owner) ==
    [id \in {x \in DOMAIN fs : fs[x].owner = owner} |-> fs[id].movesLeft]

\* C3: one endTurn() call made in PLAYER phase runs, in this order, the mining
\* pass (the only step that changes resources or yield; no fleet and no enemy
\* log entry yet), the switch to ENEMY phase with enemy budgets reset, the
\* enemy step (the only step that moves an enemy fleet and logs ENEMY MOVE),
\* and the return to PLAYER phase with player budgets reset; the turn counter
\* changes only in the last step, by exactly 1.
C3_EndTurnOrder ==
    [][/\ (pc = "idle" /\ lastCall'.op = "endTurn") =>
              /\ phase = "PLAYER" /\ pc' = "mined"
              /\ fleets' = fleets /\ phase' = phase /\ turn' = turn
              /\ \A i \in 1..Len(intelLog') : intelLog'[i].text # "ENEMY MOVE"
       /\ pc = "mined" =>
              /\ pc' = "enemy" /\ phase' = "ENEMY" /\ turn' = turn
              /\ resources' = resources /\ galaxy' = galaxy
              /\ Locations(fleets', "ENEMY") = Locations(fleets, "ENEMY")
              /\ \A id \in DOMAIN Budgets(fleets', "ENEMY") :
                     Budgets(fleets', "ENEMY")[id] = MOVES_PER_TURN
              /\ Locations(fleets', "PLAYER") = Locations(fleets, "PLAYER")
              /\ Budgets(fleets', "PLAYER") = Budgets(fleets, "PLAYER")
       /\ pc = "enemy" =>
              /\ pc' = "enemyDone" /\ phase' = "ENEMY" /\ turn' = turn
              /\ resources' = resources /\ galaxy' = galaxy
              /\ Locations(fleets', "PLAYER") = Locations(fleets, "PLAYER")
              /\ Budgets(fleets', "PLAYER") = Budgets(fleets, "PLAYER")
              /\ MiningLoggedFirst(intelLog')
       /\ pc = "enemyDone" =>
              /\ pc' = "returned" /\ phase' = "PLAYER" /\ turn' = turn + 1
              /\ resources' = resources /\ galaxy' = galaxy
              /\ Locations(fleets', "ENEMY") = Locations(fleets, "ENEMY")
              /\ Locations(fleets', "PLAYER") = Locations(fleets, "PLAYER")
              /\ \A id \in DOMAIN Budgets(fleets', "PLAYER") :
                     Budgets(fleets', "PLAYER")[id] = MOVES_PER_TURN
              /\ MiningLoggedFirst(intelLog')
       /\ turn' # turn => pc = "enemyDone"
       /\ Locations(fleets', "ENEMY") # Locations(fleets, "ENEMY") => pc = "enemy"
      ]_vars

\* endTurn() has returned: the miner was credited, then the raider moved,
\* the turn advanced and the miner's spent budget is back
C3_Witness ==
    /\ Returned("endTurn", "void")
    /\ turn = 2
    /\ phase = "PLAYER"
    /\ resources.T2 = 2
    /\ fleets["MINER-1"].location = "ALPHA"
    /\ fleets["MINER-1"].movesLeft = MOVES_PER_TURN
    /\ fleets["ENEMY-1"].location = "SOL"
    /\ \E i, j \in 1..Len(intelLog) :
           i < j /\ intelLog[i].kind = "MINE" /\ intelLog[j].text = "ENEMY MOVE"

----------------------------------------------------------------------------
(* C4: the end-turn mining credit *)

\* the player miner fleets stationed at systemId
MinersAt(systemId) ==
    {id \in DOMAIN fleets : /\ fleets[id].owner = "PLAYER"
                            /\ fleets[id].role = "MINER"
                            /\ fleets[id].location = systemId}

C4_WitnessBootstrap ==
    /\ pc = "mined"
    /\ turn = 1
    /\ fleets["MINER-1"].location = "SOL"
    /\ resources = Metals(1, 0, 0)
    /\ galaxy["SOL"].yieldRemaining = FullYield - 12

----------------------------------------------------------------------------
(* C5, C6: depletion *)

\* C5: no step other than a new game raises a field's yieldRemaining, which
\* stays within [0, 100 %]; a mining pass with a miner stationed at a field
\* that is not depleted lowers it by a fixed positive amount or, when less
\* than that is left, to exactly 0 (so finitely many passes deplete it); and
\* a field at 0 stays at 0.
C5_DepletionMonotone ==
    [][\A s \in AsteroidSystems :
          LET y == galaxy[s].yieldRemaining
              yNext == galaxy'[s].yieldRemaining
              gained == (MINER_YIELD_PER_TURN.T1 * Asteroids[s].richness) \div 100
              step == (gained * 100 * YieldScale) \div Asteroids[s].totalYield
          IN  /\ yNext <= y
              /\ 0 <= yNext /\ yNext <= 100 * YieldScale
              /\ y = 0 => yNext = 0
              /\ (pc = "idle" /\ lastCall'.op = "endTurn" /\ MinersAt(s) # {} /\ y > 0)
                     => /\ step > 0
                        /\ yNext = (IF y > step THEN y - step ELSE 0)
      ]_vars

\* SOL's field had less than one mining step left; the mining pass has just
\* taken it to exactly 0
C5_Witness ==
    /\ pc = "mined"
    /\ fleets["MINER-1"].location = "SOL"
    /\ galaxy["SOL"].yieldRemaining = 0
    /\ resources.T1 > 0
    /\ \E i \in 1..Len(intelLog) : intelLog[i].text = "MINING"

\* C6: once a field's yieldRemaining is 0, neither the end-turn mining pass
\* nor mineAsteroid on that field changes resources, and mineAsteroid on it
\* does not return true.
C6_DepletedYieldsNothing ==
    [][\A s \in AsteroidSystems :
          galaxy[s].yieldRemaining = 0 =>
              /\ (pc = "idle" /\ lastCall'.op = "endTurn" /\ MinersAt(s) # {})
                     => resources' = resources
              /\ mineAsteroid(s)
                     => (resources' = resources /\ lastCall'.ret = "false")
      ]_vars

\* the half of C6 that the code keeps: the end-turn pass skips a depleted field
C6_EndTurnSkipsDepleted ==
    [][\A s \in AsteroidSystems :
          (galaxy[s].yieldRemaining = 0 /\ pc = "idle"
               /\ lastCall'.op = "endTurn" /\ MinersAt(s) # {})
              => resources' = resources]_vars

----------------------------------------------------------------------------
(* C7: build / dismantle round trip *)

\* floor(c * 0.5), stated without division
HalfDown(c) == CHOOSE h \in 0..c : 2 * h <= c /\ c < 2 * h + 2

\* C7: buildFleet debits the blueprint's cost and creates a fleet of one ship
\* of the blueprint's type; dismantleFleet of such a fleet credits
\* floor(cost / 2) of every tier of that cost (Frigate {15, 5, 0} gives back
\* {7, 2, 0}), so the round trip nets -(cost - floor(cost / 2)) per tier; and
\* the refund of a fleet of two ships is the sum of the two floored halves.
C7_DismantleRefund ==
    [][/\ \A b \in BlueprintKeys :
             LET cost == BLUEPRINTS[b].cost
                 refund == [t \in Tiers |-> HalfDown(cost[t])]
             IN  /\ \A site \in Systems :
                        (buildFleet(b, site) /\ lastCall'.ret = "true") =>
                            /\ \A t \in Tiers : resources'[t] = resources[t] - cost[t]
                            /\ \E id \in DOMAIN fleets' \ DOMAIN fleets :
                                   /\ Len(fleets'[id].ships) = 1
                                   /\ fleets'[id].ships[1].type = b
                 /\ \A f \in DOMAIN fleets :
                        (/\ dismantleFleet(f) /\ lastCall'.ret = "true"
                         /\ Len(fleets[f].ships) = 1
                         /\ fleets[f].ships[1].type = b) =>
                            /\ \A t \in Tiers : resources'[t] = resources[t] + refund[t]
                            /\ b = "FRIGATE" =>
                                   /\ resources'.T1 = resources.T1 + 7
                                   /\ resources'.T2 = resources.T2 + 2
                                   /\ resources'.T3 = resources.T3
       /\ \A b1, b2 \in BlueprintKeys :
             SumRefund(<<createShip(b1), createShip(b2)>>, 1) =
                 [t \in Tiers |-> HalfDown(BLUEPRINTS[b1].cost[t])
                                    + HalfDown(BLUEPRINTS[b2].cost[t])]
      ]_vars

\* a Frigate was built from the ledger {15, 10, 2} and dismantled at once:
\* {15, 10, 2} - {15, 5, 0} + {7, 2, 0}
C7_Witness ==
    /\ Returned("dismantleFleet", "true")
    /\ resources = Metals(7, 7, 2)
    /\ nextUid = 2
    /\ UidPool[2] \notin DOMAIN fleets
    /\ "MINER-1" \in DOMAIN fleets

----------------------------------------------------------------------------
(* C8: phase and pause gating *)

GatedOps == {"moveFleet", "startFleetMovement", "buildFleet", "buildStation",
             "mineAsteroid"}

\* C8: while the phase is not PLAYER or the game is paused, every call of
\* moveFleet, startFleetMovement, buildFleet, buildStation and mineAsteroid
\* returns false and leaves fleets, pending movements, galaxy and resources
\* unchanged.
C8_GatedWhilePausedOrNotPlayer ==
    [][(/\ pc = "idle" /\ lastCall'.op \in GatedOps
        /\ (phase # "PLAYER" \/ isPaused)) =>
           /\ lastCall'.ret = "false"
           /\ UNCHANGED <<fleets, activeMovements, galaxy, resources>>]_vars

----------------------------------------------------------------------------
(* C9, C10: rejected calls *)

RejectingOps == {"moveFleet", "buildFleet", "dismantleFleet", "buildStation"}

\* C9: a call of moveFleet, buildFleet, dismantleFleet or buildStation that
\* returns false leaves galaxy, fleets, resources, turn, phase and both
\* selections exactly as they were.
C9_RejectChangesNothing ==
    [][(/\ pc = "idle" /\ lastCall'.op \in RejectingOps
        /\ lastCall'.ret = "false") =>
           UNCHANGED <<galaxy, fleets, resources, turn, phase,
                       selectedSystemId, selectedFleetId>>]_vars

\* buildFleet has just been refused for lack of metals, with an alert
C9_Witness ==
    /\ Returned("buildFleet", "false")
    /\ resources = Metals(0, 0, 0)
    /\ intelLog = <<Entry("ALERT", "BUILD FAILED: costs")>>
    /\ selectedFleetId = "MINER-1"

\* C10: every call of moveFleet, buildFleet, dismantleFleet, buildStation or
\* mineAsteroid that returns false appends at least one ALERT entry.
C10_RejectAlerts ==
    [][(/\ pc = "idle" /\ lastCall'.op \in RejectingOps \cup {"mineAsteroid"}
        /\ lastCall'.ret = "false") =>
           \E i \in 1..Len(intelLog') : intelLog'[i].kind = "ALERT"]_vars

\* systems a station is ordered at: SOL, which has the starter station, and BETA
RecordSites == {"SOL", "BETA"}

\* stations built and fleets dismantled, next to the tick that reads the
\* station records
NextRecords ==
    \/ \E s \in RecordSites, free \in BOOLEAN : buildStation(s, free)
    \/ \E f \in FleetArgs : dismantleFleet(f)
    \/ \E d \in DeltaTimes : updateRealTimeGame(d)
    \/ CallerContinues

SpecRecords == InitEconomy /\ [][NextRecords]_vars

\* the fleets of the starting state: the miner, the enemy corvette and the
\* starter station
Movers == {"MINER-1", "ENEMY-1", UidPool[1]}

\* the host's frame loop at speed 1x: movements are ordered for the miner and
\* for the station fleet, the AI orders the enemy's, and the tick runs
NextTicks ==
    \/ \E f \in Movers \ {"ENEMY-1"}, s \in EconomyTargets : startFleetMovement(f, s)
    \/ \E d \in DeltaTimes : updateRealTimeGame(d)
    \/ CallerContinues

\* the frame loop calls updateRealTimeGame again and again between the other
\* calls, and every call returns to its caller
FairTicks ==
    /\ SF_vars(\E d \in DeltaTimes : updateRealTimeGame(d))
    /\ WF_vars(CallerContinues)

SpecTicks == Init /\ [][NextTicks]_vars /\ FairTicks

\* a session that queues a real-time movement, then replaces the root state
\* by newGame() or by saveGame() and loadGame(), and keeps ticking
NextSession ==
    \/ startFleetMovement("MINER-1", "ALPHA")
    \/ \E i \in SpeedArgs : setGameSpeed(i)
    \/ \E d \in DeltaTimes : updateRealTimeGame(d)
    \/ newGame
    \/ saveGame
    \/ loadGame
    \/ CallerContinuesLogged

SpecSession == Init /\ [][NextSession]_vars

----------------------------------------------------------------------------
(* C11, C12: persistence *)

\* the root object written out field by field, with a given log
RootWith(log) ==
    [version |-> 1, turn |-> turn, phase |-> phase, galaxy |-> galaxy,
     fleets |-> fleets, resources |-> resources,
     selectedSystemId |-> selectedSystemId,
     selectedFleetId |-> selectedFleetId, intelLog |-> log]

\* nothing has changed since saveGame() wrote the store, except that the
\* log has got the entry of that call
JustSaved ==
    /\ pc = "idle"
    /\ storage.kind = "doc"
    /\ storage.keys = RootKeys
    /\ storage.root = RootWith(storage.root.intelLog)
    /\ olderLog = CapLog(Append(storage.root.intelLog,
                                Entry("SYSTEM", "SAVE: Game saved")))

\* saveGame() stores the root object as it was just before the call and
\* changes no field of it but the log
SavedAsItWas ==
    saveGame => /\ storage' = [kind |-> "doc", keys |-> RootKeys,
                               root |-> RootWith(CapLog(olderLog \o intelLog))]
                /\ UNCHANGED rootVars

BadStore(raw) ==
    \/ raw.kind \in {"none", "garbage", "jsonNull"}
    \/ raw.kind = "doc" /\ raw.root.version # 1
    \/ raw.kind = "doc" /\ ~({"galaxy", "fleets", "resources"} \subseteq raw.keys)

\* the alerts of loadGame
LoadAlerts == {"LOAD FAILED: No save found", "LOAD FAILED: Could not parse save",
               "LOAD FAILED: Bad save version", "LOAD FAILED: Corrupt save data"}

PlanetsOf == {sp \in Systems \X {"SOL-P1"} : sp[2] \in DOMAIN galaxy[sp[1]].planets}

\* the planet named by a pair of PlanetsOf
PlanetAt(sp) == galaxy[sp[1]].planets[sp[2]]

C13_RecordIffDefenseControl ==
    \A sp \in PlanetsOf :
        PlanetAt(sp).invasion.active <=> PlanetAt(sp).defense.control = "CONTESTED"

\* the outcome C14 gives for a startInvasion step on a planet that exists,
\* where owner is the value the attacker is compared with
StartInvasionOutcome(sp, strength, attacker, owner) ==
    IF \/ PlanetAt(sp).invasion.active
       \/ attacker = owner
       \/ strength <= 0
    THEN /\ lastCall'.ret = "false"
         /\ galaxy' = galaxy
    ELSE /\ lastCall'.ret = "true"
         /\ galaxy'[sp[1]].planets[sp[2]].invasion =
                [active |-> TRUE, attacker |-> attacker,
                 invasionStrength |-> strength, turnsOngoing |-> 0]
         /\ galaxy'[sp[1]].planets[sp[2]].controller = "CONTESTED"
         /\ galaxy'[sp[1]].planets[sp[2]].defense.control = "CONTESTED"

C14_StartInvasionByDefenseControl ==
    [][\A sp \in PlanetsOf, strength \in Strengths, attacker \in Sides :
           startInvasion(sp[2], strength, attacker) =>
               StartInvasionOutcome(sp, strength, attacker,
                                    PlanetAt(sp).defense.control)]_vars

\* the planet of PlanetsOf after the step
PlanetAfter(sp) == galaxy'[sp[1]].planets[sp[2]]

\* C15: for each contested planet, one resolveInvasions() call computes, from
\* the values before the call, attackDamage = max(1, invasionStrength -
\* fortification) and defenseDamage = max(1, garrison), adds 1 to
\* turnsOngoing and to unrest, and floors garrison - attackDamage and
\* invasionStrength - defenseDamage at 0.  If the garrison is then 0 the
\* attacker becomes controller, the garrison is max(1, floor(strength / 2))
\* of the reduced strength, unrest drops by 2 floored at 0 and the invasion
\* is cleared (also when the strength is 0 as well); else if the strength
\* is 0 the defender wins, unrest drops by 3 floored at 0 and the invasion
\* is cleared; else the invasion continues with no change of control.
C15_ResolutionTick ==
    [][resolveInvasions =>
         \A sp \in PlanetsOf :
           IF ~PlanetAt(sp).invasion.active
           THEN PlanetAfter(sp) = PlanetAt(sp)
           ELSE LET inv == PlanetAt(sp).invasion
                    def == PlanetAt(sp).defense
                    attackDamage ==
                        IF inv.invasionStrength - def.fortification > 1
                        THEN inv.invasionStrength - def.fortification ELSE 1
                    defenseDamage == IF def.garrison > 1 THEN def.garrison ELSE 1
                    garrison == IF def.garrison > attackDamage
                                THEN def.garrison - attackDamage ELSE 0
                    strength == IF inv.invasionStrength > defenseDamage
                                THEN inv.invasionStrength - defenseDamage ELSE 0
                    after == PlanetAfter(sp)
                IN  /\ after.defense.fortification = def.fortification
                    /\ after.groundTroops = PlanetAt(sp).groundTroops
                    /\ after.defenses = PlanetAt(sp).defenses
                    /\ IF garrison = 0
                       THEN /\ ~after.invasion.active
                            /\ after.controller = inv.attacker
                            /\ after.defense.control = inv.attacker
                            /\ after.defense.garrison =
                                   (IF strength \div 2 > 1 THEN strength \div 2 ELSE 1)
                            /\ after.defense.unrest =
                                   (IF def.unrest + 1 > 2 THEN def.unrest - 1 ELSE 0)
                       ELSE IF strength = 0
                       THEN /\ ~after.invasion.active
                            /\ after.controller \notin {inv.attacker, "CONTESTED"}
                            /\ after.defense.control = after.controller
                            /\ after.defense.garrison = garrison
                            /\ after.defense.unrest =
                                   (IF def.unrest + 1 > 3 THEN def.unrest - 2 ELSE 0)
                       ELSE /\ after.invasion =
                                   [active |-> TRUE, attacker |-> inv.attacker,
                                    invasionStrength |-> strength,
                                    turnsOngoing |-> inv.turnsOngoing + 1]
                            /\ after.controller = PlanetAt(sp).controller
                            /\ after.defense.control = def.control
                            /\ after.defense.garrison = garrison
                            /\ after.defense.unrest = def.unrest + 1]_vars

\* an invasion of strength 4 against garrison 3 behind fortification 2 has
\* had its first tick: garrison 1, strength 1, and it goes on
C15_Witness ==
    /\ Returned("resolveInvasions", "void")
    /\ "SOL-P1" \in DOMAIN galaxy["SOL"].planets
    /\ galaxy["SOL"].planets["SOL-P1"].invasion.active
    /\ galaxy["SOL"].planets["SOL-P1"].invasion.invasionStrength = 1
    /\ galaxy["SOL"].planets["SOL-P1"].invasion.turnsOngoing = 1
    /\ galaxy["SOL"].planets["SOL-P1"].defense.garrison = 1
    /\ galaxy["SOL"].planets["SOL-P1"].defense.fortification = 2
    /\ galaxy["SOL"].planets["SOL-P1"].defense.unrest = 1
    /\ intelLog = <<Entry("SYSTEM", "INVASION")>>

\* a resolveInvasions step in which the defender of the planet wins: the
\* strength reaches 0 while the garrison is still above 0
DefenderWins(sp) ==
    /\ resolveInvasions
    /\ PlanetAt(sp).invasion.active
    /\ sp[2] \in DOMAIN beforeInvasion
    /\ LET inv == PlanetAt(sp).invasion
           def == PlanetAt(sp).defense
           attackDamage == IF inv.invasionStrength - def.fortification > 1
                           THEN inv.invasionStrength - def.fortification ELSE 1
           defenseDamage == IF def.garrison > 1 THEN def.garrison ELSE 1
       IN  /\ def.garrison > attackDamage
           /\ inv.invasionStrength <= defenseDamage

C16_DefenderWinRestoresSides ==
    [][\A sp \in PlanetsOf :
           (/\ DefenderWins(sp)
            /\ beforeInvasion[sp[2]].control \in Sides
            /\ beforeInvasion[sp[2]].controller = beforeInvasion[sp[2]].control) =>
               /\ PlanetAfter(sp).controller = beforeInvasion[sp[2]].controller
               /\ PlanetAfter(sp).defense.control = beforeInvasion[sp[2]].control]_vars

C17_NothingElseAdvances ==
    [][\A sp \in PlanetsOf :
           PlanetAt(sp).invasion.active =>
               /\ sp \in {tp \in Systems \X {"SOL-P1"} :
                              tp[2] \in DOMAIN galaxy'[tp[1]].planets}
               /\ PlanetAfter(sp) = PlanetAt(sp)]_vars

\* the outcome C18 gives for a reinforcePlanet(planetId, amount, owner) step
\* on a planet that exists, where holder is the value owner is compared with
ReinforceOutcome(sp, amount, owner, holder) ==
    IF \/ owner # holder
       \/ amount <= 0
       \/ PlanetAt(sp).invasion.active
    THEN /\ lastCall'.ret = "false"
         /\ galaxy' = galaxy
    ELSE /\ lastCall'.ret = "true"
         /\ PlanetAfter(sp).defense.garrison =
                PlanetAt(sp).defense.garrison + amount
         /\ PlanetAfter(sp).defense.unrest =
                (IF PlanetAt(sp).defense.unrest > amount \div 10
                 THEN PlanetAt(sp).defense.unrest - amount \div 10 ELSE 0)

\* a step of one of the two reinforcement calls adds no troops to a planet
\* that has an invasion record
NoTroopsMidSiege ==
    (pc = "idle" /\ lastCall'.op \in {"reinforcePlanet", "reinforcePlanetByFleet"}) =>
        \A sp \in PlanetsOf :
            PlanetAt(sp).invasion.active =>
                /\ PlanetAfter(sp).groundTroops <= PlanetAt(sp).groundTroops
                /\ PlanetAfter(sp).defense.garrison <= PlanetAt(sp).defense.garrison

C18_NoTroopsMidSiege == [][NoTroopsMidSiege]_vars

\* what the code does in reinforcePlanet(planetId, amount, owner): the first
\* sentence with defense.control in the place of the planet's controller
C18_ReinforceByDefenseControl ==
    [][\A sp \in PlanetsOf, amount \in Amounts, owner \in Sides :
           reinforcePlanet(sp[2], amount, owner) =>
               ReinforceOutcome(sp, amount, owner,
                                PlanetAt(sp).defense.control)]_vars

C19_CountsNonNegative ==
    \A sp \in PlanetsOf :
        /\ PlanetAt(sp).groundTroops >= 0
        /\ PlanetAt(sp).defense.garrison >= 0

RECURSIVE SiegeAfter(_, _, _, _)
\* garrison and strength k resolution steps after an invasion of strength S
\* began against garrison G behind fortification F, and whether the k-th
\* step ends it (for k up to the step that ends it)
SiegeAfter(G, S, F, k) ==
    IF k = 0 THEN [garrison |-> G, strength |-> S, over |-> FALSE]
    ELSE LET b == SiegeAfter(G, S, F, k - 1)
             attackDamage == IF b.strength - F > 1 THEN b.strength - F ELSE 1
             defenseDamage == IF b.garrison > 1 THEN b.garrison ELSE 1
             g == IF b.garrison > attackDamage THEN b.garrison - attackDamage ELSE 0
             st == IF b.strength > defenseDamage THEN b.strength - defenseDamage ELSE 0
         IN  [garrison |-> g, strength |-> st, over |-> (g = 0 \/ st = 0)]

\* C20: an invasion started with strength S >= 1 against garrison G >= 0 and
\* fortification F >= 0 is resolved (record cleared, controller PLAYER or
\* ENEMY) after finitely many resolveInvasions() calls, at most max(1, G);
\* the number of calls, the garrison and strength after each of them and
\* the side that wins depend on (G, S, F) alone, whatever other calls come
\* in between.
C20_SiegeDeterministicAndBounded ==
    [][resolveInvasions =>
         \A sp \in PlanetsOf :
           PlanetAt(sp).invasion.active =>
             LET h == beforeInvasion[sp[2]]
                 k == PlanetAt(sp).invasion.turnsOngoing + 1
                 r == SiegeAfter(h.garrison, h.strength, h.fortification, k)
                 after == PlanetAfter(sp)
             IN  /\ h.strength >= 1 /\ h.garrison >= 0 /\ h.fortification >= 0
                 /\ k <= (IF h.garrison > 1 THEN h.garrison ELSE 1)
                 /\ IF r.over
                    THEN /\ ~after.invasion.active
                         /\ after.controller \in Sides
                         /\ (after.controller = PlanetAt(sp).invasion.attacker)
                                <=> r.garrison = 0
                         /\ after.defense.garrison =
                                (IF r.garrison > 0 THEN r.garrison
                                 ELSE IF r.strength \div 2 > 1
                                 THEN r.strength \div 2 ELSE 1)
                    ELSE /\ after.invasion.active
                         /\ after.invasion.turnsOngoing = k
                         /\ after.invasion.invasionStrength = r.strength
                         /\ after.defense.garrison = r.garrison]_vars

\* an invasion of strength 20 against garrison 10 behind fortification 2 is
\* over after its first resolution step: PLAYER holds the planet with the
\* occupation garrison floor((20 - 10) / 2) = 5
C20_Witness ==
    /\ Returned("resolveInvasions", "void")
    /\ "SOL-P1" \in DOMAIN galaxy["SOL"].planets
    /\ ~galaxy["SOL"].planets["SOL-P1"].invasion.active
    /\ galaxy["SOL"].planets["SOL-P1"].controller = "PLAYER"
    /\ galaxy["SOL"].planets["SOL-P1"].defense =
           [control |-> "PLAYER", garrison |-> 5, fortification |-> 2, unrest |-> 0]
    /\ galaxy["SOL"].planets["SOL-P1"].groundTroops = 10
    /\ intelLog = <<Entry("ALERT", "CAPTURED")>>

\* the costs buildFleet and buildStation can charge
Costs == {BLUEPRINTS[b].cost : b \in BlueprintKeys} \cup {stationCost}

\* C21: in every state reachable from bootstrap through the action API
\* tieredMetals.T1, T2 and T3 are non-negative integers; the ledger is
\* debited only by buildFleet and buildStation, by exactly a cost every tier
\* of which the ledger held before, and every other change of a tier
\* (mining, dismantle refund, station generation) is a credit.
C21_LedgerNonNegative ==
    [][/\ \A t \in Tiers : resources[t] \in Nat /\ resources'[t] \in Nat
       /\ (\E t \in Tiers : resources'[t] < resources[t]) =>
              /\ pc = "idle"
              /\ lastCall'.op \in {"buildFleet", "buildStation"}
              /\ lastCall'.ret = "true"
              /\ \E cost \in Costs :
                     \A t \in Tiers : /\ cost[t] <= resources[t]
                                      /\ resources'[t] = resources[t] - cost[t]]_vars

\* a frigate was paid for out of 15/10/2 and dismantled for half its cost
\* rounded down (7/2/0), then SOL's station generated floor(4.5) = 4 T1
C21_Witness ==
    /\ Returned("updateRealTimeGame", "void")
    /\ nextUid = 2
    /\ UidPool[2] \notin DOMAIN fleets
    /\ resources = Metals(11, 7, 2)

\* C22: in every reachable state every fleet's location is the id of a
\* system present in state.galaxy, across moveFleet, buildFleet,
\* buildStation, the enemy step of endTurn and the completion of real-time
\* movements.
C22_FleetsAtSystems ==
    \A id \in DOMAIN fleets : fleets[id].location \in DOMAIN galaxy

\* a real-time movement of the miner from SOL has just been completed by a
\* tick, after the enemy step of an endTurn() took the raider off DELTA
C22_Witness ==
    /\ Returned("updateRealTimeGame", "void")
    /\ \E i \in 1..Len(intelLog) : intelLog[i].text = "ARRIVED"
    /\ fleets["MINER-1"].location = "ALPHA"
    /\ fleets["ENEMY-1"].location # "DELTA"
    /\ turn > 1

\* C23: under every action other than newGame and loadGame a system's intel
\* never changes from SCANNED back to UNKNOWN; the only action that changes
\* a system's intel or discovered flag is a successful moveFleet into that
\* system, which sets intel = SCANNED and discovered = true; selectSystem on
\* an UNKNOWN system changes only the selection and the log.
C23_IntelOnlyByMoveFleet ==
    [][/\ \A s \in Systems :
              /\ galaxy[s].intel = "SCANNED" => galaxy'[s].intel = "SCANNED"
              /\ (\/ galaxy'[s].intel # galaxy[s].intel
                  \/ galaxy'[s].discovered # galaxy[s].discovered) =>
                     /\ pc = "idle"
                     /\ lastCall' = [op |-> "moveFleet", ret |-> "true"]
                     /\ \E f \in DOMAIN fleets :
                            /\ fleets[f].location # s
                            /\ fleets'[f].location = s
                     /\ galaxy'[s].intel = "SCANNED"
                     /\ galaxy'[s].discovered = TRUE
       /\ (pc = "idle" /\ lastCall'.op = "selectSystem") =>
              UNCHANGED <<phase, turn, galaxy, fleets, resources, selectedFleetId,
                          rtVars>>]_vars

\* ALPHA was selected while UNKNOWN and is still UNKNOWN and undiscovered
C23_Witness ==
    /\ Returned("selectSystem", "void")
    /\ selectedSystemId = "ALPHA"
    /\ galaxy["ALPHA"].intel = "UNKNOWN"
    /\ galaxy["ALPHA"].discovered = FALSE
    /\ intelLog = <<Entry("SCAN", "UNKNOWN SIGNAL")>>

\* the miner has moved into ALPHA, which is SCANNED and discovered since
C23_WitnessScan ==
    /\ Returned("moveFleet", "true")
    /\ fleets["MINER-1"].location = "ALPHA"
    /\ galaxy["ALPHA"].intel = "SCANNED"
    /\ galaxy["ALPHA"].discovered = TRUE
    /\ intelLog[1] = Entry("SCAN", "SCAN COMPLETE")

\* stations that are paid for, dismantling, and the turns and the mining in
\* between
NextStation ==
    \/ \E s \in StationSites : buildStation(s, FALSE)
    \/ \E f \in FleetArgs : dismantleFleet(f)
    \/ mineAsteroid("SOL")
    \/ EndTurnMining
    \/ EndTurnEnemyPhase
    \/ EndTurnEnemyStep
    \/ EndTurnPlayerPhase
    \/ CallerContinues

SpecStation == InitEconomy /\ [][NextStation]_vars

\* systems the miner is sent to: two neighbours of SOL two steps apart
RaceTargets == {"ALPHA", "DELTA"}

\* the turn-based move and the real-time movement queue on one fleet, with
\* the dismantling of the fleet and the turns in between
NextRace ==
    \/ \E s \in RaceTargets : moveFleet("MINER-1", s)
    \/ \E s \in RaceTargets : startFleetMovement("MINER-1", s)
    \/ \E d \in DeltaTimes : updateRealTimeGame(d)
    \/ dismantleFleet("MINER-1")
    \/ EndTurnMining
    \/ EndTurnEnemyPhase
    \/ EndTurnEnemyStep
    \/ EndTurnPlayerPhase
    \/ CallerContinues

SpecRace == Init /\ [][NextRace]_vars

\* the exported actions that read or write the phase, and the ticks
NextPhase ==
    \/ \E f \in FleetArgs, s \in {"ALPHA", "NOWHERE"} : moveFleet(f, s)
    \/ \E s \in BuildSites : buildFleet("CORVETTE", s)
    \/ \E s \in StationSites : buildStation(s, TRUE)
    \/ \E f \in FleetArgs : dismantleFleet(f)
    \/ mineAsteroid("SOL")
    \/ EndTurnMining
    \/ EndTurnEnemyPhase
    \/ EndTurnEnemyStep
    \/ EndTurnPlayerPhase
    \/ advanceTurn
    \/ \E d \in DeltaTimes : updateRealTimeGame(d)
    \/ CallerContinues

SpecPhase == InitFleets /\ [][NextPhase]_vars

(* utils/rng.ts: SeededRNG. A 32-bit word is <<hi, lo>>, two halves of 16
   bits; this.seed is kept as its low 32 bits, which is all the bit
   operators of next() and derive() read of it. *)

Half == 65536

Word(hi, lo) == <<hi, lo>>

\* the sum of two words, modulo 2^32
WordAdd(a, b) ==
    Word((a[1] + b[1] + ((a[2] + b[2]) \div Half)) % Half, (a[2] + b[2]) % Half)

RECURSIVE HalfXor(_, _, _)
\* x ^ y over the n low bits
HalfXor(x, y, n) ==
    IF n = 0 THEN 0
    ELSE ((x + y) % 2) + 2 * HalfXor(x \div 2, y \div 2, n - 1)

RECURSIVE HalfOr(_, _, _)
\* x | y over the n low bits
HalfOr(x, y, n) ==
    IF n = 0 THEN 0
    ELSE (IF x % 2 = 1 \/ y % 2 = 1 THEN 1 ELSE 0)
             + 2 * HalfOr(x \div 2, y \div 2, n - 1)

WordXor(a, b) == Word(HalfXor(a[1], b[1], 16), HalfXor(a[2], b[2], 16))

WordOr(a, b) == Word(HalfOr(a[1], b[1], 16), HalfOr(a[2], b[2], 16))

RECURSIVE Pow2(_)
Pow2(n) == IF n = 0 THEN 1 ELSE 2 * Pow2(n - 1)

\* a >>> k, for 0 < k < 16
WordShr(a, k) ==
    Word(a[1] \div Pow2(k), (a[2] \div Pow2(k)) + (a[1] % Pow2(k)) * Pow2(16 - k))

\* the four bytes of a word, lowest first
WordBytes(a) == <<a[2] % 256, a[2] \div 256, a[1] % 256, a[1] \div 256>>

\* Math.imul: the low 32 bits of the product, byte column by byte column
WordImul(a, b) ==
    LET x == WordBytes(a)
        y == WordBytes(b)
        c1 == x[1] * y[1]
        c2 == x[1] * y[2] + x[2] * y[1] + (c1 \div 256)
        c3 == x[1] * y[3] + x[2] * y[2] + x[3] * y[1] + (c2 \div 256)
        c4 == x[1] * y[4] + x[2] * y[3] + x[3] * y[2] + x[4] * y[1] + (c3 \div 256)
    IN  Word((c3 % 256) + 256 * (c4 % 256), (c1 % 256) + 256 * (c2 % 256))

\* 0x6D2B79F5, the increment of Mulberry32
SeedStep == Word(27947, 31221)

\* next(): this.seed after the call
NextSeed(seed) == WordAdd(seed, SeedStep)

\* next(): the value returned, times 2^32
NextValue(seed) ==
    LET t0 == NextSeed(seed)
        t1 == WordImul(WordXor(t0, WordShr(t0, 15)), WordOr(t0, Word(0, 1)))
        t2 == WordXor(t1, WordAdd(t1, WordImul(WordXor(t1, WordShr(t1, 7)),
                                                WordOr(t1, Word(0, 61)))))
    IN  WordXor(t2, WordShr(t2, 14))

\* derive(seedModifier): the seed of the new SeededRNG
DerivedSeed(seed, seedModifier) == WordXor(seed, seedModifier)

\* how many values a caller draws from one object
MaxDraws == 2

\* seeds and modifiers a caller passes
Seeds == {Word(0, 1), Word(4660, 22136)}
Modifiers == {Word(0, 0), Word(0, 7), Word(43981, 52719)}

\* new SeededRNG(seed), twice
InitRng ==
    /\ phase = "PLAYER"
    /\ turn = 1
    /\ galaxy = BootGalaxy(UidPool[1])
    /\ fleets = BootFleets(UidPool[1])
    /\ resources = Metals(0, 0, 0)
    /\ selectedSystemId = "SOL"
    /\ selectedFleetId = "MINER-1"
    /\ intelLog = BootLog
    /\ currentGameSpeedIndex = 1
    /\ gameTime = 0
    /\ activeMovements = <<>>
    /\ lastAIActionTime = 0
    /\ nextUid = 1
    /\ pc = "returned"
    /\ lastCall = [op |-> "bootstrapGameState", ret |-> "void"]
    /\ movesMade = [id \in DOMAIN BootFleets(UidPool[1]) |-> 0]
    /\ storage = [kind |-> "none"]
    /\ olderLog = <<>>
    /\ beforeInvasion = NoPlanets
    /\ walk = NoWalk
    /\ \E seed \in Seeds :
           rngs = [active |-> TRUE, seed |-> seed, parent |-> <<seed, seed>>,
                   drawn |-> <<0, 0>>, derived |-> FALSE, modifier |-> Word(0, 0),
                   child |-> <<seed, seed>>, values |-> << <<>>, <<>> >>]

gameVars == <<storage, olderLog, beforeInvasion, walk, phase, turn, galaxy, fleets,
              resources, selectedSystemId, selectedFleetId, intelLog, rtVars,
              nextUid, pc, lastCall, movesMade>>

\* parent.next(), of the first or the second parent
parentNext(i) ==
    /\ rngs.active
    /\ ~rngs.derived
    /\ rngs.drawn[i] < MaxDraws
    /\ rngs' = [rngs EXCEPT !.parent[i] = NextSeed(@), !.drawn[i] = @ + 1]
    /\ UNCHANGED gameVars

\* parent.derive(seedModifier), of both parents with the same modifier
derive(seedModifier) ==
    /\ rngs.active
    /\ ~rngs.derived
    /\ rngs' = [rngs EXCEPT !.derived = TRUE,
                            !.modifier = seedModifier,
                            !.child = <<DerivedSeed(rngs.parent[1], seedModifier),
                                        DerivedSeed(rngs.parent[2], seedModifier)>>]
    /\ UNCHANGED gameVars

\* child.next(), of both children
childNext ==
    /\ rngs.active
    /\ rngs.derived
    /\ Len(rngs.values[1]) < MaxDraws
    /\ rngs' = [rngs EXCEPT
                   !.child = <<NextSeed(rngs.child[1]), NextSeed(rngs.child[2])>>,
                   !.values = <<Append(rngs.values[1], NextValue(rngs.child[1])),
                                Append(rngs.values[2], NextValue(rngs.child[2]))>>]
    /\ UNCHANGED gameVars

NextRng ==
    \/ \E i \in {1, 2} : parentNext(i)
    \/ \E seedModifier \in Modifiers : derive(seedModifier)
    \/ childNext

\* two parents of one seed, their draws, a derivation and the children's draws
SpecRng == InitRng /\ [][NextRng]_vars

\* a session on a log that is empty or two entries short of the cap, with
\* nothing in the store
InitLog ==
    \E older \in {<<>>, OldLog} :
        BootState(BootGalaxy(UidPool[1]), Metals(0, 0, 0), NoItem, older)

\* calls that push entries: moves, scans, mining, and loads that fail
NextLog ==
    \/ \E s \in EconomyTargets : moveFleet("MINER-1", s)
    \/ mineAsteroid("SOL")
    \/ loadGame
    \/ CallerContinuesLogged

SpecLog == InitLog /\ [][NextLog]_vars

\* the axial coordinates of the bounded grid
GridRadius == 2
Grid == [q : (-GridRadius)..GridRadius, r : (-GridRadius)..GridRadius]

\* the longest hexDistance between two coordinates of the grid
MaxWalk == 4 * GridRadius

\* the values of dirIndex: both signs, beyond one turn of the six directions
MaxDir == 7
DirArgs == (-MaxDir)..MaxDir

\* one hexNeighbor call of the walk, kept inside the grid
hexNeighborStep(dirIndex) ==
    /\ walk.active
    /\ walk.len < MaxWalk
    /\ hexNeighbor(walk.at, dirIndex) \in Grid
    /\ walk' = [walk EXCEPT !.at = hexNeighbor(walk.at, dirIndex), !.len = @ + 1]
    /\ UNCHANGED <<storage, olderLog, beforeInvasion, rngs, phase, turn, galaxy,
                   fleets, resources, selectedSystemId, selectedFleetId, intelLog,
                   rtVars, nextUid, pc, lastCall, movesMade>>

\* the bootstrapped game, and a walk about to start at a coordinate of the grid
InitHex ==
    /\ phase = "PLAYER"
    /\ turn = 1
    /\ galaxy = BootGalaxy(UidPool[1])
    /\ fleets = BootFleets(UidPool[1])
    /\ resources = Metals(0, 0, 0)
    /\ selectedSystemId = "SOL"
    /\ selectedFleetId = "MINER-1"
    /\ intelLog = BootLog
    /\ currentGameSpeedIndex = 1
    /\ gameTime = 0
    /\ activeMovements = <<>>
    /\ lastAIActionTime = 0
    /\ nextUid = 1
    /\ pc = "returned"
    /\ lastCall = [op |-> "bootstrapGameState", ret |-> "void"]
    /\ movesMade = [id \in DOMAIN BootFleets(UidPool[1]) |-> 0]
    /\ storage = [kind |-> "none"]
    /\ olderLog = <<>>
    /\ beforeInvasion = NoPlanets
    /\ rngs = NoRngs
    /\ \E a \in Grid : walk = [active |-> TRUE, from |-> a, at |-> a, len |-> 0]

NextHex == \E dirIndex \in DirArgs : hexNeighborStep(dirIndex)

\* walks of hexNeighbor steps over the grid, measured by hexDistance
SpecHex == InitHex /\ [][NextHex]_vars

\* every id a fleet can have, and one id of no fleet
AnyFleetId == {FleetOrder[i] : i \in DOMAIN FleetOrder} \cup {"NOFLEET"}

\* selection, dismantling and building of fleets, with the save and the load
\* that bring an earlier selection back
NextSelection ==
    \/ \E f \in AnyFleetId : selectFleet(f)
    \/ \E f \in AnyFleetId : dismantleFleet(f)
    \/ buildFleet("CORVETTE", "SOL")
    \/ saveGame
    \/ loadGame
    \/ CallerContinues

SpecSelection == InitFleets /\ [][NextSelection]_vars

\* the last LOG_CAP entries of a sequence of appended entries, in their order
MostRecent(appended) ==
    LET kept == IF Len(appended) < LOG_CAP THEN Len(appended) ELSE LOG_CAP
    IN  [i \in 1..kept |-> appended[Len(appended) - kept + i]]

\* the entries a step appends to the log of the running call
AppendedBy(before, after) ==
    [i \in 1..(Len(after) - Len(before)) |-> after[Len(before) + i]]

\* C24: intelLog never holds more than 200 entries, and a step that appends
\* entries leaves exactly the most recently appended ones, in append order:
\* what an append over the cap removes is the oldest entries. The caller's
\* return changes nothing in the log.
C24_LogKeepsMostRecent ==
    [][/\ Len(FullLog') <= LOG_CAP
       /\ (/\ olderLog' = olderLog
           /\ Len(intelLog') >= Len(intelLog)
           /\ SubSeq(intelLog', 1, Len(intelLog)) = intelLog)
              => FullLog' = MostRecent(FullLog \o AppendedBy(intelLog, intelLog'))
       /\ (pc = "returned" /\ pc' = "idle") => FullLog' = FullLog]_vars

\* C24 witness: a full log after the append that pushed the oldest entry out
C24_Witness ==
    /\ pc = "returned"
    /\ intelLog # <<>>
    /\ Len(olderLog \o intelLog) > LOG_CAP
    /\ olderLog[1].text = "OLDEST"
    /\ Len(FullLog) = LOG_CAP
    /\ FullLog[1].text # "OLDEST"
    /\ FullLog[LOG_CAP] = intelLog[Len(intelLog)]

\* the selection is null or names a player fleet of state.fleets
SelectionValid ==
    \/ selectedFleetId = "null"
    \/ /\ selectedFleetId \in DOMAIN fleets
       /\ fleets[selectedFleetId].owner = "PLAYER"

\* C25: in every reachable state selectedFleetId is null or the id of a
\* player-owned fleet of state.fleets; selectFleet of an unknown or an enemy
\* fleet changes no selection, and dismantleFleet of the selected fleet
\* deletes the fleet and leaves the selection null.
C25_SelectionValid ==
    /\ []SelectionValid
    /\ [][/\ \A f \in AnyFleetId :
              (selectFleet(f) /\ (f \notin DOMAIN fleets \/ fleets[f].owner # "PLAYER"))
                  => selectedFleetId' = selectedFleetId
          /\ \A f \in AnyFleetId :
              (/\ dismantleFleet(f)
               /\ lastCall'.ret = "true"
               /\ selectedFleetId = f)
                  => f \notin DOMAIN fleets' /\ selectedFleetId' = "null"]_vars

\* C25 witness: the selected fleet has just been dismantled
C25_Witness ==
    /\ Returned("dismantleFleet", "true")
    /\ selectedFleetId = "null"
    /\ "MINER-1" \notin DOMAIN fleets
    /\ UidPool[2] \in DOMAIN fleets

\* C25 witness: an enemy fleet is offered to selectFleet and not taken
C25_WitnessEnemy ==
    /\ Returned("selectFleet", "void")
    /\ intelLog = <<>>
    /\ selectedFleetId = UidPool[2]

\* what buildFleet must hold for it to succeed
BuildAccepted(b, s) ==
    /\ b \in BlueprintKeys
    /\ s \in DOMAIN galaxy
    /\ phase = "PLAYER"
    /\ \A t \in Tiers : BLUEPRINTS[b].cost[t] <= resources[t]

\* C26: buildFleet(blueprintKey, atSystemId) succeeds iff the blueprint and
\* the system exist, the phase is PLAYER and every tier of the cost is within
\* the balance; on success it debits exactly the cost of every tier and adds
\* exactly one player fleet of exactly one ship of the blueprint's type, at
\* atSystemId, with movesLeft = maxMoves = MOVES_PER_TURN, and every other
\* fleet is unchanged.
C26_BuildFleetContract ==
    [][\A b \in BlueprintArgs, s \in BuildSites :
          buildFleet(b, s) =>
              /\ (lastCall'.ret = "true") <=> BuildAccepted(b, s)
              /\ BuildAccepted(b, s) =>
                     /\ \A t \in Tiers :
                            resources'[t] = resources[t] - BLUEPRINTS[b].cost[t]
                     /\ Cardinality(DOMAIN fleets' \ DOMAIN fleets) = 1
                     /\ DOMAIN fleets \subseteq DOMAIN fleets'
                     /\ \A id \in DOMAIN fleets : fleets'[id] = fleets[id]
                     /\ \A id \in DOMAIN fleets' \ DOMAIN fleets :
                            /\ fleets'[id].owner = "PLAYER"
                            /\ Len(fleets'[id].ships) = 1
                            /\ fleets'[id].ships[1].type = BLUEPRINTS[b].shipType
                            /\ fleets'[id].location = s
                            /\ fleets'[id].maxMoves = MOVES_PER_TURN
                            /\ fleets'[id].movesLeft = MOVES_PER_TURN]_vars

\* C26 witness: a destroyer, whose cost has no first tier, has been built
C26_Witness ==
    /\ Returned("buildFleet", "true")
    /\ resources = Metals(15, 0, 0)
    /\ \E id \in DOMAIN fleets :
           /\ fleets[id].ships[1].type = "DESTROYER"
           /\ fleets[id].location = "SOL"
           /\ fleets[id].movesLeft = MOVES_PER_TURN

\* C26 witness: a build refused because one tier of the cost is missing
C26_WitnessRefused ==
    /\ Returned("buildFleet", "false")
    /\ intelLog # <<>>
    /\ resources.T1 >= 15
    /\ resources.T2 < 5

\* the fleets buildStation created: their one ship is a station module
StationFleets(fs) == {id \in DOMAIN fs : fs[id].ships[1].type = "STATION"}

\* C27: a station fleet has maxMoves = 0 and movesLeft = 0 in every reachable
\* state, after any number of endTurn() calls too, so that moveFleet on it is
\* always rejected and the station fleet never changes location.
C27_StationsNeverMove ==
    /\ [](\A id \in StationFleets(fleets) :
              fleets[id].maxMoves = 0 /\ fleets[id].movesLeft = 0)
    /\ [][/\ \A id \in StationFleets(fleets) \cap DOMAIN fleets' :
                fleets'[id].location = fleets[id].location
          /\ \A id \in StationFleets(fleets), s \in SystemArgs :
                moveFleet(id, s) => lastCall'.ret = "false"]_vars

\* the moves budget of the stations after the first endTurn()
C27_StationBudgetAfterEndTurn ==
    /\ turn = 2
    /\ \A id \in StationFleets(fleets) :
           fleets[id].maxMoves = MOVES_PER_TURN

\* a station fleet that moveFleet has taken from SOL to ALPHA
C27_StationMoved ==
    /\ Returned("moveFleet", "true")
    /\ UidPool[1] \in StationFleets(fleets)
    /\ fleets[UidPool[1]].location = "ALPHA"
    /\ galaxy["SOL"].station = UidPool[1]

\* the values the four calls of Math.random() in invadePlanet can return
RollTuples == Rolls \X Rolls \X Rolls \X Rolls

\* what invadePlanet leaves of the planet and of the fleet when the four
\* calls of Math.random() return r[1] .. r[4]
InvadeOutcome(systemId, planetId, attackerFleetId, r) ==
    LET fleet == fleets[attackerFleetId]
        planet == galaxy[systemId].planets[planetId]
        success == r[1] * (calculateFleetStrength(fleet.ships, 1) + fleet.groundTroops)
                       > r[2] * (planet.defenses + planet.groundTroops)
        fleetLeft == Max2(0, fleet.groundTroops
                                - RandomLosses(r[3], IF success THEN 3 ELSE 5,
                                               fleet.groundTroops))
        planetLeft == Max2(0, planet.groundTroops
                                 - RandomLosses(r[4], IF success THEN 8 ELSE 2,
                                                planet.groundTroops))
        occupationTroops == IF fleetLeft < 30 THEN fleetLeft ELSE 30
    IN  IF success
        THEN [ret |-> "true", controller |-> fleet.owner,
              planetTroops |-> planetLeft + occupationTroops,
              fleetTroops |-> fleetLeft - occupationTroops]
        ELSE [ret |-> "false", controller |-> planet.controller,
              planetTroops |-> planetLeft, fleetTroops |-> fleetLeft]

\* what an invadePlanet step has left of the planet and of the fleet
InvadeLeft(systemId, planetId, attackerFleetId) ==
    [ret |-> lastCall'.ret,
     controller |-> galaxy'[systemId].planets[planetId].controller,
     planetTroops |-> galaxy'[systemId].planets[planetId].groundTroops,
     fleetTroops |-> fleets'[attackerFleetId].groundTroops]

\* an invadePlanet step that came to its rolls
InvadeFought(systemId, planetId, attackerFleetId) ==
    invadePlanet(systemId, planetId, attackerFleetId) /\ intelLog' # <<>>

\* every fought invadePlanet step leaves the outcome of one tuple of rolls
C28_OutcomeOfSomeRolls ==
    [][\A s \in {"SOL", "NOWHERE"}, p \in PlanetArgs, f \in FleetArgs :
          InvadeFought(s, p, f) =>
              \E r \in RollTuples : InvadeLeft(s, p, f) = InvadeOutcome(s, p, f, r)]_vars

\* C28: every gameplay outcome is a function of the prior root state and the
\* arguments of the action alone: whatever the ambient random source returns,
\* invadePlanet on one state with one fleet and one planet leaves one planet
\* controller, one troop count of the planet and one troop count of the fleet.
C28_InvadePlanetDeterministic ==
    [][\A s \in {"SOL", "NOWHERE"}, p \in PlanetArgs, f \in FleetArgs :
          InvadeFought(s, p, f) =>
              \A r \in RollTuples : InvadeLeft(s, p, f) = InvadeOutcome(s, p, f, r)]_vars

\* two invasions of one planet from one state that differ in the winner
C28_WinnerDependsOnRolls ==
    /\ pc = "idle"
    /\ \E p \in PlanetArgs, f \in DOMAIN fleets :
           /\ p \in DOMAIN galaxy["SOL"].planets
           /\ fleets[f].location = "SOL"
           /\ fleets[f].role = "COMBAT"
           /\ fleets[f].owner # galaxy["SOL"].planets[p].controller
           /\ \E a \in RollTuples, b \in RollTuples :
                  /\ InvadeOutcome("SOL", p, f, a).ret = "true"
                  /\ InvadeOutcome("SOL", p, f, b).ret = "false"

\* the systems at hex distance exactly 1 from a system
AdjacentTo(from) ==
    {s \in Systems : hexDistance(SystemCoord[from], SystemCoord[s]) = 1}

DistToSol(s) == hexDistance(SystemCoord[s], SystemCoord["SOL"])

\* what one enemyPhaseStep may make of an enemy fleet
EnemyStepAllowed(before, after) ==
    /\ after.maxMoves = before.maxMoves
    /\ AdjacentTo(before.location) = {} =>
           after.location = before.location
    /\ after.location # before.location =>
           /\ after.location \in AdjacentTo(before.location)
           /\ \A s \in AdjacentTo(before.location) :
                  DistToSol(after.location) <= DistToSol(s)
           /\ after.movesLeft = after.maxMoves - 1

\* C29: during one endTurn() each enemy fleet makes at most one move, to a
\* system at hex distance exactly 1 from its system, the one chosen having
\* the minimum hex distance to SOL among the adjacent systems; an enemy fleet
\* with no adjacent system does not move; a moved enemy fleet ends the step
\* with movesLeft = maxMoves - 1. The same holds of the step wherever in the
\* galaxy the enemy fleet stands.
C29_EnemyStepsTowardSol ==
    /\ [](\A from \in Systems :
              LET f == [fleets["ENEMY-1"] EXCEPT !.location = from]
              IN  EnemyStepAllowed(f, EnemyFleetStep(f)))
    /\ [][\A id \in DOMAIN fleets :
              fleets[id].owner = "ENEMY" =>
                  /\ id \in DOMAIN fleets'
                  /\ IF pc = "enemy" /\ pc' = "enemyDone"
                     THEN EnemyStepAllowed(fleets[id], fleets'[id])
                     ELSE fleets'[id].location = fleets[id].location]_vars

\* C29 witness: the enemy phase has taken ENEMY-1 from DELTA, whose
\* neighbours are SOL and GAMMA, to SOL
C29_Witness ==
    /\ pc = "enemyDone"
    /\ AdjacentTo("DELTA") = {"SOL", "GAMMA"}
    /\ fleets["ENEMY-1"].location = "SOL"
    /\ fleets["ENEMY-1"].movesLeft = fleets["ENEMY-1"].maxMoves - 1
    /\ intelLog[Len(intelLog)] = Entry("MOVE", "ENEMY MOVE")

\* the greatest of |dq|, |dr| and |dq + dr|
AxialMax(a, b) ==
    LET ds == {Abs(a.q - b.q), Abs(a.r - b.r), Abs((a.q - b.q) + (a.r - b.r))}
    IN  CHOOSE m \in ds : \A x \in ds : x <= m

\* C30: for the coordinates a and b of a bounded grid, hexDistance(a, b) =
\* max(|dq|, |dr|, |dq + dr|) is the length of a shortest walk of hexNeighbor
\* steps from a to b: no walk from a to b is shorter, and from b a step leads
\* to a coordinate one nearer to a; it is symmetric, it is 0 iff a = b, and
\* hexDistance(c, hexNeighbor(c, i)) = 1 for every integer i, a negative i
\* and an i of 6 or more wrapping modulo 6 onto the six distinct directions.
C30_HexDistanceIsWalkLength ==
    walk.active =>
        LET a == walk.from
            b == walk.at
            d == hexDistance(a, b)
        IN  /\ d = AxialMax(a, b)
            /\ d <= walk.len
            /\ a # b => \E i \in 0..5 :
                            /\ hexNeighbor(b, i) \in Grid
                            /\ hexDistance(a, hexNeighbor(b, i)) = d - 1
            /\ hexDistance(b, a) = d
            /\ d = 0 <=> a = b
            /\ \A i \in DirArgs :
                   /\ hexDistance(b, hexNeighbor(b, i)) = 1
                   /\ hexNeighbor(b, i) = hexNeighbor(b, i % 6)
            /\ Cardinality({hexNeighbor(b, i) : i \in 0..5}) = 6

\* C30 witness: a walk across the grid, from one corner to the opposite one,
\* of exactly as many steps as the distance
C30_Witness ==
    /\ walk.active
    /\ walk.from = [q |-> -GridRadius, r |-> -GridRadius]
    /\ walk.at = [q |-> GridRadius, r |-> GridRadius]
    /\ walk.len = hexDistance(walk.from, walk.at)
    /\ walk.len = MaxWalk
    /\ hexNeighbor(walk.at, -1) = [q |-> GridRadius, r |-> GridRadius + 1]

\* C30 witness: a walk that came back to its start, longer than the distance
C30_WitnessDetour ==
    /\ walk.active
    /\ walk.len = 3
    /\ walk.at = walk.from
    /\ hexDistance(walk.from, walk.at) = 0

\* children derived from parents that had drawn equally often agree
C31_EqualDrawsEqualChildren ==
    (rngs.active /\ rngs.derived /\ rngs.drawn[1] = rngs.drawn[2]) =>
        rngs.values[1] = rngs.values[2]

\* C31: the stream of a child obtained from derive(m) depends only on the seed
\* its parent was constructed with and on m: two parents constructed with the
\* same seed yield identical child streams for the same m, however many
\* values each parent produced before derive was called.
C31_ChildDependsOnSeedAndModifier ==
    (rngs.active /\ rngs.derived) =>
        /\ rngs.child[1] = rngs.child[2]
        /\ rngs.values[1] = rngs.values[2]

\* two children of one seed and one modifier whose first values differ, the
\* second parent having drawn one value more than the first
C31_ChildrenDiffer ==
    /\ rngs.active
    /\ rngs.derived
    /\ rngs.drawn = <<0, 1>>
    /\ Len(rngs.values[1]) = MaxDraws
    /\ rngs.values[1][1] # rngs.values[2][1]

\* the station fleets that were paid for: all but the free one of bootstrap
PaidStations == StationFleets(fleets) \ {UidPool[1]}

\* C32: a station built with buildStation(systemId, free = false), which
\* debits the station cost {T1: 10, T2: 5, T3: 2}, and then dismantled with
\* dismantleFleet refunds half of that cost floored per tier, {T1: 5, T2: 2,
\* T3: 1}.
C32_StationRefundIsHalfItsCost ==
    [][/\ \A s \in StationSites :
              (buildStation(s, FALSE) /\ lastCall'.ret = "true") =>
                  resources' = pay(resources, Metals(10, 5, 2))
       /\ \A f \in PaidStations :
              (dismantleFleet(f) /\ lastCall'.ret = "true") =>
                  resources' = Metals(resources.T1 + 5, resources.T2 + 2,
                                      resources.T3 + 1)]_vars

\* a paid station has been dismantled and the ledger shows what came back:
\* of {15, 10, 2} less the cost {10, 5, 2}, five units of the first tier
C32_RefundSeen ==
    /\ Returned("dismantleFleet", "true")
    /\ galaxy["BETA"].station # "null"
    /\ galaxy["BETA"].station \notin DOMAIN fleets
    /\ resources = Metals(10, 5, 0)

\* an enemy step that takes a fleet nowhere or strictly nearer to SOL
StepsNearer(before, after) ==
    \/ after.location = before.location
    \/ /\ after.location \in AdjacentTo(before.location)
       /\ DistToSol(after.location) < DistToSol(before.location)

\* C33: the enemy step of endTurn() moves an enemy fleet only to an adjacent
\* system strictly closer to SOL than the system it is in: the fleet's hex
\* distance to SOL never increases across an endTurn(), and an enemy fleet at
\* SOL stays at SOL. Stated of the enemy step taken and of the enemy step the
\* next endTurn() takes from the state reached.
C33_EnemyOnlyApproachesSol ==
    /\ [](\A id \in DOMAIN fleets :
              (fleets[id].owner = "ENEMY" /\ pc \in {"idle", "returned"}) =>
                  StepsNearer(fleets[id], EnemyFleetStep(fleets[id])))
    /\ [][(pc = "enemy" /\ pc' = "enemyDone") =>
              \A id \in DOMAIN fleets :
                  fleets[id].owner = "ENEMY" => StepsNearer(fleets[id], fleets'[id])]_vars

\* endTurn() has brought ENEMY-1 to SOL, and the enemy step of the next
\* endTurn() takes it from SOL to ALPHA
C33_EnemyLeavesSol ==
    /\ Returned("endTurn", "void")
    /\ turn = 2
    /\ fleets["ENEMY-1"].location = "SOL"
    /\ EnemyFleetStep(fleets["ENEMY-1"]).location = "ALPHA"
    /\ DistToSol("ALPHA") = 1

\* C34: across every interleaving of moveFleet, startFleetMovement,
\* updateRealTimeGame ticks, dismantleFleet and endTurn, each change of a
\* fleet's location goes to a system at hex distance exactly 1 from the
\* location the fleet had immediately before the change.
C34_EveryRelocationIsOneHop ==
    [][\A id \in DOMAIN fleets \cap DOMAIN fleets' :
          fleets'[id].location # fleets[id].location =>
              hexDistance(SystemCoord[fleets[id].location],
                          SystemCoord[fleets'[id].location]) = 1]_vars

\* the miner, sent from SOL to ALPHA by startFleetMovement and moved to DELTA
\* by moveFleet meanwhile, has arrived at ALPHA
C34_ArrivedFromElsewhere ==
    /\ Returned("updateRealTimeGame", "void")
    /\ activeMovements = <<>>
    /\ "MINER-1" \in DOMAIN fleets
    /\ fleets["MINER-1"].location = "ALPHA"
    /\ movesMade["MINER-1"] = 1
    /\ fleets["MINER-1"].movesLeft = 1
    /\ galaxy["DELTA"].intel = "SCANNED"
    /\ hexDistance(SystemCoord["DELTA"], SystemCoord["ALPHA"]) = 2

\* C35: every mining credit of an amount gained, by the end-turn pass or by
\* mineAsteroid, lowers the yieldRemaining of the field it comes from by
\* (gained / totalYield) * 100 and leaves it at 0 or more, so that what a
\* field has credited never exceeds its totalYield.
C35_EveryCreditDepletes ==
    [][\A t \in Tiers :
          resources'[t] > resources[t] =>
              \E s \in AsteroidSystems :
                  /\ Asteroids[s].metalTier = t
                  /\ FindMiner(1, s) # "null"
                  /\ galaxy'[s].yieldRemaining >= 0
                  /\ galaxy'[s].yieldRemaining =
                         galaxy[s].yieldRemaining
                             - ((resources'[t] - resources[t]) * 100 * YieldScale)
                                   \div Asteroids[s].totalYield]_vars

\* mineAsteroid has credited SOL's field twice and the field is as full as
\* at bootstrap
C35_CreditedAndFull ==
    /\ Returned("mineAsteroid", "true")
    /\ resources.T1 = 2
    /\ turn = 1
    /\ galaxy["SOL"].yieldRemaining = FullYield

\* the end-turn pass has credited SOL's field and depleted it accordingly
C35_PassDepletes ==
    /\ Returned("endTurn", "void")
    /\ resources.T1 = 1
    /\ galaxy["SOL"].yieldRemaining
           = FullYield - (100 * YieldScale) \div Asteroids["SOL"].totalYield

\* the alerts of the wrong-phase rejections
PhaseAlerts ==
    {Entry("ALERT", "STATION BLOCKED: Not in PLAYER phase"),
     Entry("ALERT", "MOVE BLOCKED: Not in PLAYER phase"),
     Entry("ALERT", "BUILD BLOCKED: Not in PLAYER phase"),
     Entry("ALERT", "DISMANTLE BLOCKED: Not in PLAYER phase"),
     Entry("ALERT", "MINING BLOCKED: Not in PLAYER phase")}

\* C36: whenever control is with the caller, before or after any exported
\* action, endTurn and advanceTurn included, state.phase is PLAYER: the ENEMY
\* phase exists only inside one endTurn() call, so that advanceTurn never
\* takes its ENEMY branch and no wrong-phase rejection is ever taken.
C36_PhaseIsPlayerBetweenActions ==
    /\ [](pc \in {"idle", "returned"} => phase = "PLAYER")
    /\ [](phase = "ENEMY" => lastCall.op \in {"endTurn", "advanceTurn"})
    /\ [][(advanceTurn \/ EndTurnMining) => phase = "PLAYER" /\ pc' = "mined"]_vars
    /\ [](\A i \in DOMAIN intelLog : intelLog[i] \notin PhaseAlerts)

\* C36 witness: the enemy phase, inside endTurn()
C36_WitnessInside ==
    /\ pc = "enemyDone"
    /\ phase = "ENEMY"
    /\ lastCall.op = "endTurn"
    /\ fleets["ENEMY-1"].location = "SOL"

\* C36 witness: control is back from an advanceTurn() whose endTurn() went
\* through the enemy phase, and the phase is PLAYER
C36_Witness ==
    /\ Returned("advanceTurn", "void")
    /\ phase = "PLAYER"
    /\ turn = 2
    /\ fleets["ENEMY-1"].location = "SOL"
    /\ intelLog[Len(intelLog)] = Entry("SYSTEM", "Player phase begins")


\* the root state has just been replaced: newGame() or a successful
\* loadGame() returned
RootReplaced == Returned("newGame", "void") \/ Returned("loadGame", "true")

\* the log has an entry of the given text
Logged(log, text) == \E i \in DOMAIN log : log[i].text = text

\* C37: when newGame() or a successful loadGame() has replaced the root
\* state, nothing of the previous session's real-time bookkeeping is left: no
\* active movement (so no movement accepted before the replacement can
\* relocate a fleet of the new state), game time and AI timer at zero, the
\* game speed at its default.
C37_ReplacementResetsRealTime ==
    RootReplaced =>
        /\ activeMovements = <<>>
        /\ gameTime = 0
        /\ lastAIActionTime = 0
        /\ currentGameSpeedIndex = 1

\* C37 evidence: newGame() returned with the movement of the previous session
\* still active and the clock still running
C37_MovementSurvivesNewGame ==
    /\ Returned("newGame", "void")
    /\ HasMovement(activeMovements, "MINER-1")
    /\ gameTime > 0

\* C37 evidence: in the game newGame() created, whose log records no accepted
\* movement, a tick moves MINER-1 from SOL to ALPHA
C37_StaleMovementArrives ==
    /\ Returned("updateRealTimeGame", "void")
    /\ nextUid > 1
    /\ ~Logged(olderLog, "MOVING")
    /\ Logged(intelLog, "ARRIVED")
    /\ fleets["MINER-1"].location = "ALPHA"

\* C37 evidence: as C37_MovementSurvivesNewGame, for a successful loadGame()
C37_MovementSurvivesLoad ==
    /\ Returned("loadGame", "true")
    /\ HasMovement(activeMovements, "MINER-1")
    /\ ~Logged(olderLog, "MOVING")


\* systems whose station record names the given fleet
RecordsOf(id) == {s \in Systems : galaxy[s].station = id}

\* C38: in every reachable state each station record names a live fleet that
\* is player-owned and located at the record's system, and each station fleet
\* is named by the record of the system it is located at; dismantling a
\* station fleet or building a second station in a system keeps it so.
C38_StationRecordsMatchFleets ==
    /\ \A s \in Systems :
           galaxy[s].station # "NONE" =>
               /\ galaxy[s].station \in DOMAIN fleets
               /\ fleets[galaxy[s].station].owner = "PLAYER"
               /\ fleets[galaxy[s].station].location = s
    /\ \A id \in StationFleets(fleets) : RecordsOf(id) = {fleets[id].location}

\* C38 evidence: dismantleFleet returned true for the station fleet of SOL
\* and SOL's record still names it
C38_RecordWithoutFleet ==
    /\ Returned("dismantleFleet", "true")
    /\ galaxy["SOL"].station # "NONE"
    /\ galaxy["SOL"].station \notin DOMAIN fleets

\* C38 evidence: a second station was built at SOL and the starter station
\* fleet is there without a record
C38_FleetWithoutRecord ==
    /\ Returned("buildStation", "true")
    /\ \E id \in StationFleets(fleets) :
           fleets[id].location = "SOL" /\ RecordsOf(id) = {}

\* C38 evidence: with its station fleet dismantled, SOL's record still makes
\* the tick generate resources
C38_RecordStillGenerates ==
    /\ Returned("updateRealTimeGame", "void")
    /\ galaxy["SOL"].station \notin DOMAIN fleets \cup {"NONE"}
    /\ StationFleets(fleets) = {}
    /\ resources.T1 > 0


\* systems in which a player-owned fleet is located
PlayerHeld ==
    {fleets[id].location : id \in {f \in DOMAIN fleets : fleets[f].owner = "PLAYER"}}
        \cap Systems

\* C39: in every reachable state every system in which a player-owned fleet
\* is located has intel = SCANNED and discovered = true, whether the fleet got
\* there by moveFleet, by buildFleet or buildStation at the system, or by the
\* completion of a real-time movement.
C39_PlayerSystemsAreScanned ==
    \A s \in PlayerHeld : galaxy[s].intel = "SCANNED" /\ galaxy[s].discovered

\* C39 evidence: a station was built at BETA, which is UNKNOWN and undiscovered
C39_StationAtUnknown ==
    /\ Returned("buildStation", "true")
    /\ "BETA" \in PlayerHeld
    /\ galaxy["BETA"].intel = "UNKNOWN"
    /\ ~galaxy["BETA"].discovered

\* C39 evidence: a tick completed the miner's movement to ALPHA, which is
\* UNKNOWN and undiscovered
C39_ArrivedUnscanned ==
    /\ Returned("updateRealTimeGame", "void")
    /\ Logged(intelLog, "ARRIVED")
    /\ fleets["MINER-1"].location = "ALPHA"
    /\ galaxy["ALPHA"].intel = "UNKNOWN"
    /\ ~galaxy["ALPHA"].discovered

\* C39 evidence: moveFleet, for its part, scans the system it moves into
C39_MovedAndScanned ==
    /\ Returned("moveFleet", "true")
    /\ fleets["MINER-1"].location = "ALPHA"
    /\ galaxy["ALPHA"].intel = "SCANNED"
    /\ galaxy["ALPHA"].discovered


\* a movement of the fleet accepted at the time is active
ActiveSince(f, t) ==
    \E i \in DOMAIN activeMovements :
        activeMovements[i].fleetId = f /\ activeMovements[i].startTime = t

\* the values the clock takes at speed 1x
TickTimes == {t \in 0..MaxGameTime : \E d \in DeltaTimes : t % d = 0}

\* the game is not paused and the clock has room for one more tick
TickAhead ==
    /\ ~isPaused
    /\ \E d \in DeltaTimes :
           gameTime + d * GAME_SPEEDS[currentGameSpeedIndex + 1] <= MaxGameTime

\* the number of active movements of the fleet
MovementsOf(f) ==
    Cardinality({i \in DOMAIN activeMovements : activeMovements[i].fleetId = f})

\* the movements of the given fleets leave the active list once a tick is
\* still to come
MovementsEnd(ids) ==
    \A f \in ids, t \in TickTimes :
        (ActiveSince(f, t) /\ TickAhead) ~> ~ActiveSince(f, t)

\* the step in which a movement leaves the active list puts its fleet at the
\* movement's target
EndsAtTarget ==
    \A i \in DOMAIN activeMovements :
        LET m == activeMovements[i]
        IN  (\A j \in DOMAIN activeMovements' : activeMovements'[j] # m) =>
                fleets'[m.fleetId].location = m.toSystemId

\* C40: every movement accepted by startFleetMovement eventually completes
\* when unpaused ticks keep coming: the movement leaves the active list and
\* the fleet is at the movement's target, for every fleet, station fleets
\* with maxMoves = 0 included; and no fleet ever has two active movements.
C40_EveryMovementCompletes ==
    /\ MovementsEnd(Movers)
    /\ [][EndsAtTarget]_vars
    /\ [](\A f \in Movers : MovementsOf(f) <= 1)

\* C40 evidence: a tick has returned two full ticks after the station fleet's
\* movement was accepted, the movement is still active and the station is
\* where it was
C40_StationStillMoving ==
    /\ Returned("updateRealTimeGame", "void")
    /\ \E i \in DOMAIN activeMovements, d \in DeltaTimes :
           /\ activeMovements[i].fleetId = UidPool[1]
           /\ activeMovements[i].duration.den = 0
           /\ gameTime - activeMovements[i].startTime >= 2 * d
           /\ fleets[UidPool[1]].location = activeMovements[i].fromSystemId

\* C40 evidence: the miner's movement has completed while the station's is
\* still active
C40_MinerArrived ==
    /\ Returned("updateRealTimeGame", "void")
    /\ HasMovement(activeMovements, UidPool[1])
    /\ ~HasMovement(activeMovements, "MINER-1")
    /\ fleets["MINER-1"].location = "ALPHA"
    /\ Logged(intelLog, "ARRIVED")

\* C40, the part that holds: the movements of the fleets with maxMoves > 0
\* complete, and no fleet has two active movements
C40_MobileFleetsArrive ==
    /\ MovementsEnd(Movers \ {UidPool[1]})
    /\ [][EndsAtTarget]_vars
    /\ [](\A f \in Movers : MovementsOf(f) <= 1)


\* C40, why the clock's bound plays no part: the completion test of a movement
\* of a fleet with maxMoves = 0 fails at every time, however late
C40_StationNeverDue ==
    \A i \in DOMAIN activeMovements :
        activeMovements[i].duration.den = 0 =>
            \A now \in 0..(MaxGameTime * MaxGameTime) :
                ~MovementDone(activeMovements[i], now)

====
